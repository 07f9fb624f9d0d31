---------------------------- MODULE ClientProofs ----------------------------
(***************************************************************************)
(* Proofs about the client, for every file length, block size and width of *)
(* a byte.                                                                 *)
(***************************************************************************)
EXTENDS Client, TLAPS

\* Division with remainder, in the form the proofs below use it.
LEMMA DivMod ==
  ASSUME NEW a \in Nat, NEW b \in Nat, b > 0
  PROVE  /\ a \div b \in Nat
         /\ a % b \in 0 .. b - 1
         /\ a = (a \div b) * b + (a % b)
  OBVIOUS

\* A number below the divisor is its own remainder.
LEMMA ModSmall ==
  ASSUME NEW a \in Nat, NEW b \in Nat, a < b
  PROVE  a % b = a /\ (a + b) % b = a
  OBVIOUS

\* Multiplication by a block size keeps the order.
LEMMA TimesMonotone ==
  ASSUME NEW a \in Nat, NEW b \in Nat, NEW f \in Nat, a <= b
  PROVE  a * f <= b * f
  OBVIOUS

\* What the receiver decodes from a header is what the client put in: the size,
\* as long as it is below the done bit, and whether it was the last packet.
LEMMA HeaderRoundTrip ==
  ASSUME NEW size \in Nat, size < ByteSize * DONE_BIT, NEW last \in BOOLEAN
  PROVE  /\ Header(size, last) \in [ low : Byte, high : Byte ]
         /\ LengthOf(Header(size, last)) = size
         /\ IsDone(Header(size, last)) <=> last
<1> DEFINE q == size \div ByteSize
           r == size % ByteSize
           D == DONE_BIT
<1>1. ByteSize \in Nat /\ ByteSize > 0 /\ D \in Nat /\ D > 0 /\ ByteSize = 2 * D
  BY ByteSizeAssumption DEF DONE_BIT
<1>2. q \in Nat /\ r \in 0 .. ByteSize - 1 /\ size = q * ByteSize + r
  BY <1>1, DivMod
<1>3. q < D
  <2>1. SUFFICES ASSUME q >= D PROVE FALSE
    BY <1>1, <1>2
  <2>2. q * ByteSize >= D * ByteSize
    BY <1>1, <1>2, <2>1, TimesMonotone
  <2> QED
    BY <1>1, <1>2, <2>2 DEF D
<1>4. q % ByteSize = q
  BY <1>1, <1>2, <1>3, ModSmall
<1>5. q % D = q /\ (q + D) % D = q
  BY <1>1, <1>2, <1>3, ModSmall
<1> HIDE DEF q, r, D
<1>6. Header(size, last) = [ low |-> r, high |-> IF last THEN q + D ELSE q ]
  BY <1>1, <1>2, <1>3, <1>4 DEF Header, SetDone, q, r, D
<1> QED
  BY <1>1, <1>2, <1>3, <1>5, <1>6 DEF LengthOf, IsDone, Byte, D

\* The parts of a datagram.
LEMMA DatagramFields ==
  ASSUME NEW from, NEW size, NEW last
  PROVE  /\ Datagram(from, size, last).header = Header(size, last)
         /\ Datagram(from, size, last).from = from
         /\ Datagram(from, size, last).size = size
  BY DEF Datagram

\* loops and remainder divide the file.
LEMMA Division ==
  ASSUME ClientTypeOK
  PROVE  /\ bytes_read \in Nat
         /\ blocksize \in Nat \ {0}
         /\ blocksize <= MAX_BLOCKSIZE
         /\ loops \in Nat
         /\ Blocks \in Nat \ {0}
         /\ remainder \in 0 .. blocksize - 1
         /\ bytes_read = loops * blocksize + remainder
<1>1. bytes_read \in Nat /\ blocksize \in 1 .. MAX_BLOCKSIZE /\ MAX_BLOCKSIZE \in Nat
  BY ClientAssumption DEF ClientTypeOK
<1>2. /\ bytes_read \div blocksize \in Nat
      /\ bytes_read % blocksize \in 0 .. blocksize - 1
      /\ bytes_read = (bytes_read \div blocksize) * blocksize + (bytes_read % blocksize)
  BY <1>1, DivMod
<1> QED
  BY <1>1, <1>2 DEF loops, remainder, Blocks

\* A datagram the client makes is of the type the invariant gives, if its payload
\* is not empty and fits the buffer.
LEMMA DatagramType ==
  ASSUME NEW from \in Nat, NEW size \in 1 .. MAX_BLOCKSIZE, NEW last \in BOOLEAN
  PROVE  Datagram(from, size, last) \in
           [ header : [ low : Byte, high : Byte ],
             from : Nat, size : 1 .. MAX_BLOCKSIZE ]
<1>1. size \in Nat /\ size < ByteSize * DONE_BIT
  BY ClientAssumption, ByteSizeAssumption DEF DONE_BIT
<1>2. Header(size, last) \in [ low : Byte, high : Byte ]
  BY <1>1, HeaderRoundTrip
<1> QED
  BY <1>2 DEF Datagram

\* Sending the datagram that is next keeps the part of the invariant about sent.
LEMMA SendNext ==
  ASSUME ClientInv, NEW from \in Nat, NEW size \in 1 .. MAX_BLOCKSIZE,
         NEW last \in BOOLEAN, Send(from, size, last),
         Datagram(from, size, last) = NthDatagram(n + 1),
         stage' \in {"blocks", "remainder", "sent"}
  PROVE  /\ ClientTypeOK'
         /\ Len(sent') = n'
         /\ n' = n + 1
         /\ (\A k \in 1 .. n : sent[k] = NthDatagram(k))'
         /\ loops' = loops /\ remainder' = remainder /\ Blocks' = Blocks
<1>1. /\ sent' = Append(sent, Datagram(from, size, last))
      /\ n' = n + 1 /\ bytes_read' = bytes_read /\ blocksize' = blocksize
  BY DEF Send
<1>2. n \in Nat /\ Len(sent) = n
  BY DEF ClientInv, ClientTypeOK
<1>3. loops' = loops /\ remainder' = remainder /\ Blocks' = Blocks
  BY <1>1 DEF loops, remainder, Blocks
<1>4. \A k \in 1 .. n + 1 : NthDatagram(k)' = NthDatagram(k)
  BY <1>1, <1>3 DEF NthDatagram, Datagram, Header, SetDone
<1>5. Datagram(from, size, last) \in
        [ header : [ low : Byte, high : Byte ],
          from : Nat, size : 1 .. MAX_BLOCKSIZE ]
  BY DatagramType
<1>6. ClientTypeOK'
  BY <1>1, <1>2, <1>5 DEF ClientInv, ClientTypeOK
<1>7. Len(sent') = n + 1
  BY <1>1, <1>2 DEF ClientInv, ClientTypeOK
<1>8. ASSUME NEW k \in 1 .. n + 1
      PROVE  sent'[k] = NthDatagram(k)
  <2>1. CASE k = n + 1
    BY <1>1, <1>2, <2>1 DEF ClientInv, ClientTypeOK
  <2>2. CASE k \in 1 .. n
    BY <1>1, <1>2, <2>2 DEF ClientInv, ClientTypeOK
  <2> QED
    BY <1>2, <2>1, <2>2
<1> QED
  BY <1>1, <1>3, <1>4, <1>6, <1>7, <1>8

LEMMA InvInit ==
  ASSUME ClientInit
  PROVE  ClientInv
<1>1. ClientTypeOK
  BY DEF ClientInit, ClientTypeOK
<1> QED
  BY <1>1, Division DEF ClientInit, ClientInv

LEMMA InvStep ==
  ASSUME ClientInv, [ClientStep]_clientVars
  PROVE  ClientInv'
<1>1. ClientTypeOK /\ n \in Nat
  BY DEF ClientInv, ClientTypeOK
<1>2. /\ bytes_read \in Nat
      /\ blocksize \in Nat \ {0}
      /\ blocksize \in 1 .. MAX_BLOCKSIZE
      /\ loops \in Nat
      /\ Blocks \in Nat \ {0}
      /\ remainder \in 0 .. blocksize - 1
  BY <1>1, Division, ClientAssumption
<1>3. n * blocksize \in Nat /\ loops * blocksize \in Nat
  BY <1>1, <1>2
<1>4. CASE SendBlock
  <2>0. /\ stage' = "blocks" /\ n < loops - 1
        /\ Send(n * blocksize, blocksize, FALSE)
    BY <1>4, Zenon DEF SendBlock
  <2>1. n + 1 < Blocks
    BY <1>1, <1>2, <2>0 DEF Blocks
  <2>2. Datagram(n * blocksize, blocksize, FALSE) = NthDatagram(n + 1)
    <3>1. n + 1 <= Blocks /\ (n + 1) - 1 = n
      BY <1>1, <1>2, <2>1
    <3>2. (remainder = 0 /\ n + 1 = Blocks) = FALSE
      BY <1>1, <1>2, <2>0, <2>1
    <3> QED
      BY <3>1, <3>2, Zenon DEF NthDatagram
  <2> QED
    BY <1>1, <1>2, <1>3, <2>0, <2>1, <2>2, SendNext DEF ClientInv
<1>5. CASE SendLastBlock
  <2>0. /\ stage = "blocks" /\ n >= loops - 1
        /\ stage' = "sent" /\ remainder = 0
        /\ Send(n * blocksize, blocksize, TRUE)
    BY <1>5, Zenon DEF SendLastBlock
  <2>1. n + 1 = Blocks
    BY <1>1, <1>2, <2>0 DEF Blocks, ClientInv
  <2>2. Datagram(n * blocksize, blocksize, TRUE) = NthDatagram(n + 1)
    <3>1. n + 1 <= Blocks /\ (n + 1) - 1 = n
      BY <1>1, <1>2, <2>1
    <3>2. (remainder = 0 /\ n + 1 = Blocks) = TRUE
      BY <1>1, <1>2, <2>0, <2>1
    <3> QED
      BY <3>1, <3>2, Zenon DEF NthDatagram
  <2> QED
    BY <1>1, <1>2, <1>3, <2>0, <2>1, <2>2, SendNext DEF ClientInv
<1>6. CASE SendLastBlockAsNormal
  <2>0. /\ stage = "blocks" /\ n >= loops - 1
        /\ stage' = "remainder" /\ remainder # 0
        /\ Send(n * blocksize, blocksize, FALSE)
    BY <1>6, Zenon DEF SendLastBlockAsNormal
  <2>1. n + 1 = Blocks
    BY <1>1, <1>2, <2>0 DEF Blocks, ClientInv
  <2>2. Datagram(n * blocksize, blocksize, FALSE) = NthDatagram(n + 1)
    <3>1. n + 1 <= Blocks /\ (n + 1) - 1 = n
      BY <1>1, <1>2, <2>1
    <3>2. (remainder = 0 /\ n + 1 = Blocks) = FALSE
      BY <1>1, <1>2, <2>0, <2>1
    <3> QED
      BY <3>1, <3>2, Zenon DEF NthDatagram
  <2> QED
    BY <1>1, <1>2, <1>3, <2>0, <2>1, <2>2, SendNext DEF ClientInv
<1>7. CASE SendRemainder
  <2>0. /\ stage = "remainder" /\ stage' = "sent"
        /\ Send(loops * blocksize, remainder, TRUE)
    BY <1>7, Zenon DEF SendRemainder
  <2>1. n = Blocks /\ remainder \in 1 .. MAX_BLOCKSIZE
    BY <1>1, <1>2, <2>0, ClientAssumption DEF ClientInv
  <2>2. Datagram(loops * blocksize, remainder, TRUE) = NthDatagram(n + 1)
    <3>1. ~ (n + 1 <= Blocks)
      BY <1>1, <1>2, <2>1
    <3> QED
      BY <3>1, Zenon DEF NthDatagram
  <2> QED
    BY <1>1, <1>2, <1>3, <2>0, <2>1, <2>2, SendNext DEF ClientInv
<1>8. CASE UNCHANGED clientVars
  BY <1>8 DEF clientVars, ClientInv, ClientTypeOK, Blocks, loops, remainder,
              NthDatagram, Datagram, Header, SetDone
<1> QED
  BY <1>4, <1>5, <1>6, <1>7, <1>8 DEF ClientStep

\* No payload is larger than a block.
LEMMA SizeFits ==
  ASSUME ClientInv, NEW k \in 1 .. Len(sent)
  PROVE  sent[k].size <= blocksize
<1>1. ClientTypeOK /\ k \in 1 .. n /\ sent[k] = NthDatagram(k)
  BY DEF ClientInv
<1>2. sent[k].size \in {blocksize, remainder}
  <2>1. CASE k <= Blocks
    <3> DEFINE last == remainder = 0 /\ k = Blocks
    <3>1. sent[k] = Datagram((k - 1) * blocksize, blocksize, last)
      BY <1>1, <2>1, Zenon DEF NthDatagram
    <3> HIDE DEF last
    <3> QED
      BY <3>1, DatagramFields
  <2>2. CASE ~(k <= Blocks)
    <3> DEFINE last == TRUE
    <3>1. sent[k] = Datagram(loops * blocksize, remainder, last)
      BY <1>1, <2>2, Zenon DEF NthDatagram
    <3> HIDE DEF last
    <3> QED
      BY <3>1, DatagramFields
  <2> QED
    BY <2>1, <2>2
<1>3. remainder <= blocksize /\ blocksize <= blocksize
  BY <1>1, Division
<1> QED
  BY <1>2, <1>3, Zenon

LEMMA TellsTruth == ClientInv => HeaderTellsTruth
<1> SUFFICES ASSUME ClientInv, NEW k \in 1 .. Len(sent)
             PROVE  /\ LengthOf(sent[k].header) = sent[k].size
                    /\ IsDone(sent[k].header) <=> (stage = "sent" /\ k = Len(sent))
  BY DEF HeaderTellsTruth
<1>1. ClientTypeOK /\ n \in Nat /\ Len(sent) = n /\ k \in 1 .. n
  BY DEF ClientInv, ClientTypeOK
<1>2. /\ blocksize \in Nat \ {0} /\ blocksize <= MAX_BLOCKSIZE
      /\ loops \in Nat /\ Blocks \in Nat \ {0}
      /\ remainder \in 0 .. blocksize - 1
  BY <1>1, Division
<1>3. /\ blocksize < ByteSize * DONE_BIT
      /\ remainder \in Nat /\ remainder < ByteSize * DONE_BIT
  BY <1>2, ClientAssumption, ByteSizeAssumption DEF DONE_BIT
<1>4. stage \in {"blocks", "remainder", "sent"}
  BY <1>1 DEF ClientTypeOK
<1>5. CASE k <= Blocks
  <2> DEFINE last == remainder = 0 /\ k = Blocks
  <2>1. sent[k] = Datagram((k - 1) * blocksize, blocksize, last)
    BY <1>1, <1>5, Zenon DEF ClientInv, NthDatagram
  <2>2. last <=> (stage = "sent" /\ k = Len(sent))
    BY <1>1, <1>2, <1>4, <1>5 DEF ClientInv
  <2>3. last \in BOOLEAN
    OBVIOUS
  <2> HIDE DEF last
  <2>4. sent[k].header = Header(blocksize, last) /\ sent[k].size = blocksize
    BY <2>1, DatagramFields
  <2> QED
    BY <1>2, <1>3, <2>2, <2>3, <2>4, HeaderRoundTrip
<1>6. CASE ~ (k <= Blocks)
  <2> DEFINE last == TRUE
  <2>1. sent[k] = Datagram(loops * blocksize, remainder, last)
    BY <1>1, <1>6, Zenon DEF ClientInv, NthDatagram
  <2>2. last /\ last \in BOOLEAN /\ stage = "sent" /\ k = Len(sent)
    BY <1>1, <1>2, <1>4, <1>6 DEF ClientInv
  <2> HIDE DEF last
  <2>3. sent[k].header = Header(remainder, last) /\ sent[k].size = remainder
    BY <2>1, DatagramFields
  <2> QED
    BY <1>3, <2>2, <2>3, HeaderRoundTrip
<1> QED
  BY <1>5, <1>6

LEMMA SendsOnce == ClientInv => SentFileOnce
<1> SUFFICES ASSUME ClientInv, bytes_read >= blocksize
             PROVE  /\ \A k \in 1 .. Len(sent) :
                         /\ sent[k].from = IF k = 1 THEN 0 ELSE End(sent[k - 1])
                         /\ End(sent[k]) <= bytes_read
                    /\ stage = "sent" =>
                         sent # << >> /\ End(sent[Len(sent)]) = bytes_read
  BY DEF SentFileOnce
<1>1. ClientTypeOK /\ n \in Nat /\ Len(sent) = n
  BY DEF ClientInv, ClientTypeOK
<1>2. /\ bytes_read \in Nat
      /\ blocksize \in Nat \ {0} /\ blocksize <= MAX_BLOCKSIZE
      /\ loops \in Nat /\ Blocks \in Nat \ {0}
      /\ remainder \in 0 .. blocksize - 1
      /\ bytes_read = loops * blocksize + remainder
  BY <1>1, Division
<1>3. loops # 0 /\ Blocks = loops
  BY <1>2 DEF Blocks
<1>4. stage \in {"blocks", "remainder", "sent"} /\ n <= Blocks + 1
  BY <1>1, <1>2 DEF ClientTypeOK, ClientInv
<1>5. ASSUME NEW k \in 1 .. n, k <= loops
      PROVE  /\ sent[k].from = (k - 1) * blocksize
             /\ End(sent[k]) = k * blocksize
             /\ k * blocksize <= loops * blocksize
  <2>1. sent[k] = Datagram((k - 1) * blocksize, blocksize, remainder = 0 /\ k = Blocks)
    BY <1>3, <1>5, Zenon DEF ClientInv, NthDatagram
  <2>2. sent[k].from = (k - 1) * blocksize /\ sent[k].size = blocksize
    BY <2>1, DatagramFields
  <2>3. (k - 1) * blocksize + blocksize = k * blocksize
    BY <1>2, <1>5
  <2> QED
    BY <1>2, <1>5, <2>2, <2>3, TimesMonotone DEF End
<1>6. ASSUME NEW k \in 1 .. n, k > loops
      PROVE  /\ k = loops + 1
             /\ sent[k].from = loops * blocksize
             /\ End(sent[k]) = bytes_read
  <2>1. k = loops + 1 /\ ~ (k <= Blocks)
    BY <1>1, <1>2, <1>3, <1>4, <1>6
  <2> DEFINE last == TRUE
  <2>2. sent[k] = Datagram(loops * blocksize, remainder, last)
    BY <1>6, <2>1, Zenon DEF ClientInv, NthDatagram
  <2> HIDE DEF last
  <2>3. sent[k].from = loops * blocksize /\ sent[k].size = remainder
    BY <2>2, DatagramFields
  <2> QED
    BY <1>2, <2>1, <2>3 DEF End
<1>7. ASSUME NEW k \in 1 .. n
      PROVE  /\ sent[k].from = IF k = 1 THEN 0 ELSE End(sent[k - 1])
             /\ End(sent[k]) <= bytes_read
  <2>1. CASE k <= loops
    <3>1. k # 1 => k - 1 \in 1 .. n /\ k - 1 <= loops
      BY <1>1, <1>2, <2>1
    <3>2. k = 1 => (k - 1) * blocksize = 0
      BY <1>2
    <3>3. k # 1 => End(sent[k - 1]) = (k - 1) * blocksize
      BY <3>1, <1>5
    <3> QED
      BY <1>2, <1>5, <2>1, <3>2, <3>3
  <2>2. CASE k > loops
    <3>1. k = loops + 1 /\ k # 1 /\ loops \in 1 .. n /\ k - 1 = loops
      BY <1>1, <1>2, <1>3, <1>6, <2>2
    <3>2. End(sent[loops]) = loops * blocksize
      BY <1>2, <1>5, <3>1
    <3> QED
      BY <1>2, <1>6, <2>2, <3>1, <3>2
  <2> QED
    BY <1>1, <1>2, <2>1, <2>2
<1>8. ASSUME stage = "sent"
      PROVE  sent # << >> /\ End(sent[Len(sent)]) = bytes_read
  <2>1. n = (IF remainder = 0 THEN loops ELSE loops + 1) /\ n \in 1 .. n
    BY <1>1, <1>2, <1>3, <1>8 DEF ClientInv
  <2>2. CASE remainder = 0
    <3>1. End(sent[n]) = n * blocksize /\ n = loops
      BY <1>2, <1>5, <2>1, <2>2
    <3> QED
      BY <1>1, <1>2, <2>1, <2>2, <3>1
  <2>3. CASE remainder # 0
    <3>1. End(sent[n]) = bytes_read
      BY <1>2, <1>6, <2>1, <2>3
    <3> QED
      BY <1>1, <2>1, <3>1
  <2> QED
    BY <2>2, <2>3
<1> QED
  BY <1>1, <1>7, <1>8

\* The client's inductive invariant.
THEOREM ClientInvariant == ClientSpec => []ClientInv
<1>1. ClientInit => ClientInv
  BY InvInit
<1>2. ClientInv /\ [ClientStep]_clientVars => ClientInv'
  BY InvStep
<1> QED
  BY <1>1, <1>2, PTL DEF ClientSpec

\* The header of every datagram decodes to its size, and the done bit marks the
\* last datagram of a client that has sent everything, for every file.
THEOREM HeadersTellTruth == ClientSpec => []HeaderTellsTruth
BY TellsTruth, ClientInvariant, PTL

\* A file of at least one block is sent once, in order, without a gap and up to
\* its end, for every file and every block size.
THEOREM FileIsSentOnce == ClientSpec => []SentFileOnce
BY SendsOnce, ClientInvariant, PTL

\* The client sends bytes that are not in the file exactly if the file is shorter
\* than a block, and then with its first datagram.
THEOREM ShortFilesOnly ==
  ClientSpec => [](sent # << >> => (SentPiecesOfFile <=> bytes_read >= blocksize))
<1>1. ClientInv /\ sent # << >> => (SentPiecesOfFile <=> bytes_read >= blocksize)
  <2> SUFFICES ASSUME ClientInv, sent # << >>
               PROVE  SentPiecesOfFile <=> bytes_read >= blocksize
    OBVIOUS
  <2>1. ClientTypeOK /\ n \in Nat /\ Len(sent) = n
    BY DEF ClientInv, ClientTypeOK
  <2>2. /\ bytes_read \in Nat /\ blocksize \in Nat \ {0}
        /\ loops \in Nat /\ Blocks \in Nat \ {0} /\ remainder \in 0 .. blocksize - 1
        /\ bytes_read = loops * blocksize + remainder
    BY <2>1, Division
  <2>3. 1 \in 1 .. n
    <3>1. sent \in Seq([ header : [low : Byte, high : Byte],
                         from : Nat, size : 1 .. MAX_BLOCKSIZE ])
      BY <2>1 DEF ClientTypeOK
    <3> QED
      BY <2>1, <3>1
  <2>4. ASSUME bytes_read >= blocksize PROVE SentPiecesOfFile
    BY <2>4, SendsOnce DEF SentFileOnce, SentPiecesOfFile
  <2>5. ASSUME SentPiecesOfFile PROVE bytes_read >= blocksize
    <3> DEFINE last == remainder = 0 /\ 1 = Blocks
    <3>1. sent[1] = Datagram((1 - 1) * blocksize, blocksize, last)
      <4>1. 1 <= Blocks
        BY <2>2
      <4> QED
        BY <2>1, <2>3, <4>1, Zenon DEF ClientInv, NthDatagram
    <3> HIDE DEF last
    <3>2. sent[1].from = (1 - 1) * blocksize /\ sent[1].size = blocksize
      BY <3>1, DatagramFields
    <3>3. End(sent[1]) = blocksize
      BY <2>2, <3>2 DEF End
    <3>4. End(sent[1]) <= bytes_read
      BY <2>1, <2>3, <2>5 DEF SentPiecesOfFile
    <3> QED
      BY <2>2, <3>3, <3>4
  <2> QED
    BY <2>4, <2>5
<1> QED
  BY <1>1, ClientInvariant, PTL
=============================================================================
