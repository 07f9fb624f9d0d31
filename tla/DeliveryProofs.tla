--------------------------- MODULE DeliveryProofs ---------------------------
(***************************************************************************)
(* Proofs about what the encoder is given as a whole, for every file, ring *)
(* and socket buffer: over a network that only loses datagrams a           *)
(* subsequence of the file; over one that loses nothing the file, piece by *)
(* piece, so that client and receive loop implement FileTransfer but for   *)
(* its liveness.                                                           *)
(***************************************************************************)
EXTENDS TransferProofs

-----------------------------------------------------------------------------
(* Datagrams in order.                                                     *)

Before(d, e) == End(d) <= e.from

\* The datagrams in s are in order, and those in s before those in t.
Ordered(s) == \A a, b \in 1 .. Len(s) : a < b => Before(s[a], s[b])
Ahead(s, t) == \A a \in 1 .. Len(s), b \in 1 .. Len(t) : Before(s[a], t[b])

LEMMA MovesHead ==
  ASSUME NEW S, NEW s \in Seq(S), NEW t \in Seq(S), t # << >>,
         Ordered(s), Ordered(t), Ahead(s, t)
  PROVE  /\ Ordered(Append(s, Head(t))) /\ Ordered(Tail(t))
         /\ Ahead(s, Tail(t)) /\ Ahead(Append(s, Head(t)), Tail(t))
<1>1. /\ Len(t) \in Nat \ {0} /\ Head(t) = t[1] /\ Head(t) \in S
      /\ Len(Tail(t)) = Len(t) - 1
      /\ \A b \in 1 .. Len(t) - 1 : Tail(t)[b] = t[b + 1]
  OBVIOUS
<1>2. /\ Len(s) \in Nat /\ Len(Append(s, Head(t))) = Len(s) + 1
      /\ \A a \in 1 .. Len(s) : Append(s, Head(t))[a] = s[a]
      /\ Append(s, Head(t))[Len(s) + 1] = Head(t)
  BY <1>1, Longer
<1>3. \A b \in 1 .. Len(t) - 1 : b + 1 \in 1 .. Len(t) /\ 1 \in 1 .. Len(t) /\ 1 < b + 1
  BY <1>1
<1>4. Ordered(Tail(t))
  BY <1>1, <1>3 DEF Ordered
<1>5. Ahead(s, Tail(t))
  BY <1>1, <1>3, Zenon DEF Ahead
<1>6. Ordered(Append(s, Head(t)))
  <2> SUFFICES ASSUME NEW a \in 1 .. Len(s) + 1, NEW b \in 1 .. Len(s) + 1, a < b
               PROVE  Before(Append(s, Head(t))[a], Append(s, Head(t))[b])
    BY <1>2, Zenon DEF Ordered
  <2>1. a \in 1 .. Len(s) /\ (b \in 1 .. Len(s) \/ b = Len(s) + 1) /\ 1 \in 1 .. Len(t)
    BY <1>1, <1>2
  <2> QED
    BY <1>1, <1>2, <2>1, Zenon DEF Ordered, Ahead
<1>7. Ahead(Append(s, Head(t)), Tail(t))
  <2> SUFFICES ASSUME NEW a \in 1 .. Len(s) + 1, NEW b \in 1 .. Len(t) - 1
               PROVE  Before(Append(s, Head(t))[a], Tail(t)[b])
    BY <1>1, <1>2, Zenon DEF Ahead
  <2>1. a \in 1 .. Len(s) \/ a = Len(s) + 1
    BY <1>2
  <2> QED
    BY <1>1, <1>2, <1>3, <2>1, Zenon DEF Ordered, Ahead
<1> QED
  BY <1>4, <1>5, <1>6, <1>7

\* What is ahead of all of t is ahead of its parts; what t is ahead of, its
\* parts are ahead of.
LEMMA Parts ==
  ASSUME NEW S, NEW s \in Seq(S), NEW t \in Seq(S), NEW u \in Seq(S), t # << >>
  PROVE  /\ Ahead(s, t) /\ Ahead(s, u) => Ahead(s, Append(u, Head(t))) /\ Ahead(s, Tail(t))
         /\ Ahead(s, u) /\ Ahead(t, u) => Ahead(Append(s, Head(t)), u) /\ Ahead(Tail(t), u)
<1>1. /\ Len(t) \in Nat \ {0} /\ Head(t) = t[1] /\ Head(t) \in S
      /\ Len(Tail(t)) = Len(t) - 1
      /\ \A b \in 1 .. Len(t) - 1 : Tail(t)[b] = t[b + 1] /\ b + 1 \in 1 .. Len(t)
      /\ 1 \in 1 .. Len(t)
  OBVIOUS
<1>2. ASSUME NEW r \in Seq(S)
      PROVE  /\ Len(Append(r, Head(t))) = Len(r) + 1
             /\ \A a \in 1 .. Len(r) + 1 :
                  \/ a \in 1 .. Len(r) /\ Append(r, Head(t))[a] = r[a]
                  \/ Append(r, Head(t))[a] = t[1]
  <2>1. /\ Len(r) \in Nat /\ Len(Append(r, Head(t))) = Len(r) + 1
        /\ \A a \in 1 .. Len(r) : Append(r, Head(t))[a] = r[a]
        /\ Append(r, Head(t))[Len(r) + 1] = Head(t)
    BY <1>1, Longer
  <2>2. \A a \in 1 .. Len(r) + 1 : a \in 1 .. Len(r) \/ a = Len(r) + 1
    BY <2>1
  <2> QED
    BY <1>1, <2>1, <2>2, Zenon
<1>3. ASSUME Ahead(s, t), Ahead(s, u)
      PROVE  Ahead(s, Append(u, Head(t))) /\ Ahead(s, Tail(t))
  BY <1>1, <1>2, <1>3, Zenon DEF Ahead
<1>4. ASSUME Ahead(s, u), Ahead(t, u)
      PROVE  Ahead(Append(s, Head(t)), u) /\ Ahead(Tail(t), u)
  BY <1>1, <1>2, <1>4, Zenon DEF Ahead
<1> QED
  BY <1>3, <1>4

\* A datagram that everything is before, put at the end.
LEMMA AtEnd ==
  ASSUME NEW S, NEW s \in Seq(S), NEW t \in Seq(S), NEW e \in S,
         \A a \in 1 .. Len(s) : Before(s[a], e), \A b \in 1 .. Len(t) : Before(t[b], e)
  PROVE  /\ Ordered(t) => Ordered(Append(t, e))
         /\ Ahead(s, t) => Ahead(s, Append(t, e))
<1>1. /\ Len(t) \in Nat /\ Len(Append(t, e)) = Len(t) + 1
      /\ \A a \in 1 .. Len(t) : Append(t, e)[a] = t[a]
      /\ Append(t, e)[Len(t) + 1] = e
  BY Longer
<1>2. \A b \in 1 .. Len(t) + 1 : b \in 1 .. Len(t) \/ b = Len(t) + 1
  BY <1>1
<1>3. \A a, b \in 1 .. Len(t) + 1 : a < b => a \in 1 .. Len(t)
  BY <1>1
<1>4. ASSUME Ordered(t) PROVE Ordered(Append(t, e))
  BY <1>1, <1>2, <1>3, <1>4, Zenon DEF Ordered
<1>5. ASSUME Ahead(s, t) PROVE Ahead(s, Append(t, e))
  BY <1>1, <1>2, <1>5, Zenon DEF Ahead
<1> QED
  BY <1>4, <1>5

-----------------------------------------------------------------------------
(* The client sends in order.                                              *)

LEMMA FromIs ==
  ASSUME ClientInv, bytes_read >= blocksize, NEW k \in 1 .. Len(sent)
  PROVE  /\ sent[k].from = (k - 1) * blocksize
         /\ k <= Blocks + 1 /\ Blocks = loops
<1>1. ClientTypeOK /\ n \in Nat /\ Len(sent) = n /\ k \in 1 .. n /\ sent[k] = NthDatagram(k)
  BY DEF ClientInv, ClientTypeOK
<1>2. /\ bytes_read \in Nat /\ blocksize \in Nat \ {0} /\ loops \in Nat /\ Blocks \in Nat
      /\ remainder \in 0 .. blocksize - 1 /\ bytes_read = loops * blocksize + remainder
  BY <1>1, Division
<1>3. loops # 0
  BY <1>2
<1>4. Blocks = loops
  BY <1>3, Zenon DEF Blocks
<1>5. n <= Blocks + 1
  <2>1. stage \in {"blocks", "remainder", "sent"}
    BY <1>1 DEF ClientTypeOK
  <2> QED
    BY <1>1, <1>2, <2>1 DEF ClientInv
<1>6. k <= Blocks + 1
  BY <1>1, <1>2, <1>5
<1>7. CASE k <= Blocks
  <2> DEFINE last == remainder = 0 /\ k = Blocks
  <2>1. sent[k] = Datagram((k - 1) * blocksize, blocksize, last)
    BY <1>1, <1>7, Zenon DEF NthDatagram
  <2> HIDE DEF last
  <2>2. sent[k].from = (k - 1) * blocksize
    BY <2>1, DatagramFields
  <2> QED
    BY <1>4, <1>6, <2>2
<1>8. CASE ~(k <= Blocks)
  <2>1. k - 1 = loops
    BY <1>1, <1>2, <1>4, <1>6, <1>8
  <2> DEFINE last == TRUE
  <2>2. sent[k] = Datagram(loops * blocksize, remainder, last)
    BY <1>1, <1>8, Zenon DEF NthDatagram
  <2> HIDE DEF last
  <2>3. sent[k].from = loops * blocksize
    BY <2>2, DatagramFields
  <2> QED
    BY <1>4, <1>6, <2>1, <2>3, Zenon
<1> QED
  BY <1>4, <1>6, <1>7, <1>8

LEMMA SentInOrder ==
  ASSUME ClientInv, bytes_read >= blocksize,
         NEW k \in 1 .. Len(sent), NEW m \in 1 .. Len(sent), k < m
  PROVE  Before(sent[k], sent[m])
<1>1. blocksize \in Nat /\ Len(sent) \in Nat
  BY Division DEF ClientInv, ClientTypeOK
<1>2. sent[k].from = (k - 1) * blocksize /\ sent[m].from = (m - 1) * blocksize
  BY FromIs
<1>3. sent[k].size <= blocksize /\ sent[k].size \in Nat
  <2>1. sent[k] \in Sent
    BY Zenon DEF Sent
  <2> QED
    BY <1>1, <2>1, Known
<1>4. k * blocksize <= (m - 1) * blocksize
  <2>1. k \in Nat /\ m - 1 \in Nat /\ k <= m - 1
    BY <1>1
  <2> QED
    BY <1>1, <2>1, TimesMonotone
<1>5. (k - 1) * blocksize + blocksize = k * blocksize
  BY <1>1
<1>6. (k - 1) * blocksize \in Nat /\ k * blocksize \in Nat /\ (m - 1) * blocksize \in Nat
  BY <1>1
<1> QED
  BY <1>1, <1>2, <1>3, <1>4, <1>5, <1>6 DEF Before, End

-----------------------------------------------------------------------------
(* A network that only loses.                                              *)

Taken == [ k \in 1 .. Len(got) |-> got[k][1] ]

LEMMA TakenType ==
  ASSUME WireInv, \A k \in 1 .. Len(got) : got[k] # << >>
  PROVE  Taken \in Seq(Sent) /\ Len(Taken) = Len(got)
<1>1. got \in Seq(Calls)
  BY Zenon DEF WireInv, Calls
<1>2. ASSUME NEW k \in 1 .. Len(got) PROVE got[k][1] \in Sent
  <2>1. got[k] \in Calls /\ got[k] # << >>
    BY <1>1
  <2>2. PICK d \in Sent : got[k] = << d >>
    BY <2>1, Zenon DEF Calls
  <2> QED
    BY <2>2
<1> QED
  BY <1>1, <1>2 DEF Taken

LEMMA FirstRemoved ==
  ASSUME NEW S, NEW s \in Seq(S), Len(s) >= 1
  PROVE  s # << >> /\ s[1] = Head(s) /\ RemoveAt(s, 1) = Tail(s)
<1>1. SubSeq(s, 1, 0) = << >> /\ SubSeq(s, 2, Len(s)) = Tail(s)
  OBVIOUS
<1>2. RemoveAt(s, 1) = SubSeq(s, 1, 0) \o SubSeq(s, 2, Len(s))
  BY DEF RemoveAt
<1>3. Tail(s) \in Seq(S) /\ s # << >> /\ s[1] = Head(s)
  OBVIOUS
<1>4. << >> \o Tail(s) = Tail(s)
  BY <1>3, ConcatEmptySeq
<1> QED
  BY <1>1, <1>2, <1>3, <1>4, Zenon

\* encode() is given as many bytes as were received.
FullLength ==
  \A k \in 1 .. Len(got) : got[k] # << >> => Len(fed[k]) = got[k][1].size

\* What is received, queued and on its way is in order.
InLine ==
  /\ \A k \in 1 .. Len(got) : got[k] # << >>
  /\ Ordered(Taken) /\ Ordered(sockq) /\ Ordered(air)
  /\ Ahead(Taken, sockq) /\ Ahead(Taken, air) /\ Ahead(sockq, air)

InSequence == OnlyLoses /\ bytes_read >= blocksize => InLine

LEMMA LengthThen ==
  ASSUME TransferInv, FullLength, NEW x \in Calls, NEW p \in Seq(Content),
         got' = Append(got, x), fed' = Append(fed, p), x # << >> => Len(p) = x[1].size
  PROVE  FullLength'
<1>1. got \in Seq(Calls) /\ fed \in Seq(Seq(Content)) /\ Len(fed) = Len(got)
  BY DEF TransferInv, WireInv, LoopInv
<1>2. /\ Len(got) \in Nat /\ Len(got') = Len(got) + 1
      /\ \A k \in 1 .. Len(got) : got'[k] = got[k]
      /\ got'[Len(got) + 1] = x
  BY <1>1, Longer
<1>3. /\ \A k \in 1 .. Len(got) : fed'[k] = fed[k]
      /\ fed'[Len(got) + 1] = p
  BY <1>1, Longer
<1>4. \A k \in 1 .. Len(got') : k \in 1 .. Len(got) \/ k = Len(got) + 1
  BY <1>2
<1> QED
  BY <1>2, <1>3, <1>4, Zenon DEF FullLength

LEMMA FullLengthStep ==
  ASSUME TransferInv, FullLength, [TransferNext]_transferVars
  PROVE  FullLength'
<1>1. WireInv /\ LoopInv /\ ClientInv /\ Len(got) \in Nat
  BY DEF TransferInv, WireInv
<1>2. CASE ServerReceives
  <2>1. PICK d \in Sent : d = Head(sockq)
    BY <1>1, <1>2, WireReceives
  <2>2. got' = Append(got, << d >>) /\ Decode(Received(d, input[Slot]))
    BY <1>2, <2>1, Zenon DEF ServerReceives, GetPacket
  <2>3. PICK slot \in Slots : slot = Received(d, input[Slot]) /\ HeadersIn(slot) = {d.header}
    BY <1>1, SlotNow, Receiving, Zenon
  <2>4. Turn(slot, d.header)
    BY <1>1, <2>2, <2>3, Turning, Zenon
  <2>5. LengthOf(d.header) = d.size /\ d.header \in Headers
    BY <1>1, Known
  <2>6. PICK p \in Seq(Content) : fed' = Append(fed, p) /\ Len(p) = d.size
    <3>1. LengthOf(d.header) \in Nat
      BY <2>5, Lengths
    <3>2. /\ Payload(slot, LengthOf(d.header)) \in Seq(Content)
          /\ Len(Payload(slot, LengthOf(d.header))) = LengthOf(d.header)
      BY <3>1, Payloads
    <3> QED
      BY <2>4, <2>5, <3>2, Zenon DEF Turn
  <2>7. << d >> \in Calls /\ << d >>[1] = d
    BY DEF Calls
  <2> QED
    BY <2>2, <2>6, <2>7, LengthThen
<1>3. CASE ServerFails
  <2>1. got' = Append(got, << >>) /\ Decode(input[Slot])
    BY <1>3, Zenon DEF ServerFails, GetPacketFails
  <2>2. PICK slot \in Slots : slot = input[Slot]
    BY <1>1, SlotNow
  <2>3. PICK h \in Headers : Turn(slot, h)
    BY <1>1, <2>1, <2>2, Turning, Zenon
  <2>4. PICK p \in Seq(Content) : fed' = Append(fed, p)
    BY <2>3, Lengths, Payloads, Zenon DEF Turn
  <2>5. << >> \in Calls
    BY Zenon DEF Calls
  <2> QED
    BY <2>1, <2>4, <2>5, LengthThen
<1>4. CASE UNCHANGED << got, fed >>
  BY <1>4, Zenon DEF FullLength
<1> QED
  BY <1>2, <1>3, <1>4, Zenon DEF TransferNext, ClientSends, Arrive, transferVars, serverVars

\* The next datagram starts where as many blocks end as there are datagrams.
LEMMA NextFrom ==
  ASSUME ClientInv, ClientStep, bytes_read >= blocksize
  PROVE  Last(sent') = sent'[Len(sent) + 1] /\ sent'[Len(sent) + 1].from = Len(sent) * blocksize
<1>1. /\ ClientTypeOK /\ Len(sent) = n /\ n \in Nat
      /\ stage = "remainder" => n = Blocks
  BY DEF ClientInv, ClientTypeOK
<1>2. Blocks = loops
  <2>1. /\ bytes_read \in Nat /\ blocksize \in Nat \ {0} /\ loops \in Nat
        /\ remainder \in 0 .. blocksize - 1 /\ bytes_read = loops * blocksize + remainder
    BY <1>1, Division
  <2>2. loops # 0
    BY <2>1
  <2> QED
    BY <2>2, Zenon DEF Blocks
<1>3. \E size, last : Send(n * blocksize, size, last)
  <2>1. CASE SendBlock \/ SendLastBlock \/ SendLastBlockAsNormal
    BY <2>1, Zenon DEF SendBlock, SendLastBlock, SendLastBlockAsNormal
  <2>2. CASE SendRemainder
    BY <1>1, <1>2, <2>2, Zenon DEF SendRemainder
  <2> QED
    BY <2>1, <2>2, Zenon DEF ClientStep
<1>4. PICK size, last : sent' = Append(sent, Datagram(n * blocksize, size, last))
  BY <1>3, Zenon DEF Send
<1>5. PICK e : e = Datagram(n * blocksize, size, last)
  OBVIOUS
<1>6. e.from = n * blocksize
  BY <1>5, DatagramFields
<1>7. sent \in Seq([ header : [ low : Byte, high : Byte ], from : Nat, size : 1 .. MAX_BLOCKSIZE ])
  BY <1>1, Zenon DEF ClientTypeOK
<1>8. Len(sent') = Len(sent) + 1 /\ sent'[Len(sent) + 1] = e
  BY <1>4, <1>5, <1>7
<1> QED
  BY <1>1, <1>6, <1>8, Zenon DEF Last

LEMMA NewIsLast ==
  ASSUME ClientInv, ClientStep, bytes_read >= blocksize, NEW d \in Sent
  PROVE  Before(d, Last(sent'))
<1>1. PICK k \in 1 .. Len(sent) : d = sent[k]
  BY DEF Sent
<1>2. blocksize \in Nat /\ Len(sent) \in Nat
  BY Division DEF ClientInv, ClientTypeOK
<1>3. d.from = (k - 1) * blocksize /\ d.size <= blocksize /\ d.size \in Nat
  <2>1. d.size \in 1 .. blocksize
    BY Known
  <2> QED
    BY <1>1, <1>2, <2>1, FromIs
<1>4. Last(sent').from = Len(sent) * blocksize
  BY NextFrom
<1>5. k * blocksize <= Len(sent) * blocksize
  BY <1>1, <1>2, TimesMonotone
<1>6. /\ (k - 1) * blocksize + blocksize = k * blocksize
      /\ (k - 1) * blocksize \in Nat /\ k * blocksize \in Nat /\ Len(sent) * blocksize \in Nat
  BY <1>1, <1>2
<1> QED
  BY <1>2, <1>3, <1>4, <1>5, <1>6 DEF Before, End

LEMMA LineSends ==
  ASSUME TransferInv, OnlyLoses, bytes_read >= blocksize, InLine, ClientSends
  PROVE  InLine'
<1>1. /\ WireInv /\ ClientInv /\ ClientStep
      /\ UNCHANGED << sockq, got >>
  BY DEF TransferInv, WireInv, ClientSends, serverVars
<1>2. PICK copies \in conditions.copies : air' = air \o [ i \in 1 .. copies |-> Last(sent') ]
  BY DEF ClientSends
<1>3. copies = 0 \/ copies = 1
  BY DEF OnlyLoses
<1>4. air \in Seq(Sent') /\ sockq \in Seq(Sent')
  BY <1>1, Sends, MoreSent DEF TransferInv
<1>5. PICK e \in Sent' : e = Last(sent')
  BY <1>1, Sends
<1>6. \A d \in Sent : Before(d, e)
  BY <1>1, <1>5, NewIsLast
<1>7. air' = air \/ air' = Append(air, e)
  <2>1. CASE copies = 0
    BY <1>2, <1>4, <2>1
  <2>2. CASE copies = 1
    BY <1>2, <1>4, <1>5, <2>2
  <2> QED
    BY <1>3, <2>1, <2>2
<1>8. Taken' = Taken
  BY <1>1 DEF Taken
<1>9. CASE air' = air
  BY <1>1, <1>8, <1>9, Zenon DEF InLine, Ordered, Ahead
<1>10. CASE air' = Append(air, e)
  <2>1. /\ \A a \in 1 .. Len(air) : air[a] \in Sent
        /\ \A a \in 1 .. Len(sockq) : sockq[a] \in Sent
    BY <1>1 DEF WireInv
  <2>2. Taken \in Seq(Sent) /\ Taken \in Seq(Sent')
    BY <1>1, TakenType, Sends, SeqMonotonic DEF InLine
  <2>3. \A a \in 1 .. Len(Taken) : Taken[a] \in Sent
    BY <2>2
  <2>4. Ordered(Append(air, e)) /\ Ahead(sockq, Append(air, e))
    BY <1>4, <1>6, <2>1, AtEnd DEF InLine
  <2>5. Ahead(Taken, Append(air, e))
    BY <1>4, <1>6, <2>1, <2>2, <2>3, AtEnd DEF InLine
  <2> QED
    BY <1>1, <1>8, <1>10, <2>4, <2>5, Zenon DEF InLine, Ordered, Ahead
<1> QED
  BY <1>7, <1>9, <1>10

LEMMA LineArrives ==
  ASSUME TransferInv, OnlyLoses, InLine, Arrive
  PROVE  InLine'
<1>1. PICK i \in 1 .. Len(air) :
        /\ i = 1 \/ conditions.reorders
        /\ air' = RemoveAt(air, i)
        /\ sockq' = IF Len(sockq) < SOCKET_BUFFER THEN Append(sockq, air[i]) ELSE sockq
        /\ UNCHANGED got
  BY DEF Arrive
<1>2. air \in Seq(Sent) /\ sockq \in Seq(Sent) /\ Taken \in Seq(Sent)
  BY TakenType DEF TransferInv, WireInv, InLine
<1>3. i = 1
  BY <1>1, Zenon DEF OnlyLoses
<1>4. air # << >> /\ air[1] = Head(air) /\ RemoveAt(air, 1) = Tail(air)
  <2>1. Len(air) >= 1
    BY <1>1, <1>2
  <2> QED
    BY <1>2, <2>1, FirstRemoved
<1>5. air' = Tail(air) /\ (sockq' = Append(sockq, Head(air)) \/ sockq' = sockq) /\ Taken' = Taken
  BY <1>1, <1>3, <1>4 DEF Taken
<1>6. /\ Ordered(Append(sockq, Head(air))) /\ Ordered(Tail(air))
      /\ Ahead(sockq, Tail(air)) /\ Ahead(Append(sockq, Head(air)), Tail(air))
  BY <1>2, <1>4, MovesHead DEF InLine
<1>7. Ahead(Taken, Append(sockq, Head(air))) /\ Ahead(Taken, Tail(air))
  BY <1>2, <1>4, Parts DEF InLine
<1> QED
  BY <1>1, <1>5, <1>6, <1>7, Zenon DEF InLine, Ordered, Ahead

LEMMA LineReceives ==
  ASSUME TransferInv, InLine, ServerReceives
  PROVE  InLine'
<1>1. /\ sockq # << >> /\ sockq' = Tail(sockq) /\ air' = air
      /\ got' = Append(got, << Head(sockq) >>)
  BY DEF ServerReceives, GetPacket
<1>2. air \in Seq(Sent) /\ sockq \in Seq(Sent) /\ Taken \in Seq(Sent) /\ got \in Seq(Calls)
  BY TakenType, Zenon DEF TransferInv, WireInv, InLine, Calls
<1>3. << Head(sockq) >> # << >> /\ << Head(sockq) >> \in Calls
  BY <1>1, <1>2 DEF Calls
<1>4. Taken' = Append(Taken, Head(sockq)) /\ \A k \in 1 .. Len(got') : got'[k] # << >>
  <2>1. /\ Len(got) \in Nat /\ Len(got') = Len(got) + 1
        /\ \A k \in 1 .. Len(got) : got'[k] = got[k]
        /\ got'[Len(got) + 1] = << Head(sockq) >>
    BY <1>1, <1>2, <1>3, Longer
  <2>2. \A k \in 1 .. Len(got') : k \in 1 .. Len(got) \/ k = Len(got) + 1
    BY <2>1
  <2>3. \A k \in 1 .. Len(got') : got'[k] # << >>
    BY <1>3, <2>1, <2>2, Zenon DEF InLine
  <2>4. Taken' = Append(Taken, Head(sockq))
    BY <2>1 DEF Taken
  <2> QED
    BY <2>3, <2>4
<1>5. /\ Ordered(Append(Taken, Head(sockq))) /\ Ordered(Tail(sockq))
      /\ Ahead(Append(Taken, Head(sockq)), Tail(sockq))
  BY <1>1, <1>2, MovesHead DEF InLine
<1>6. Ahead(Append(Taken, Head(sockq)), air) /\ Ahead(Tail(sockq), air)
  BY <1>1, <1>2, Parts DEF InLine
<1> QED
  BY <1>1, <1>4, <1>5, <1>6, Zenon DEF InLine, Ordered, Ahead

LEMMA InSequenceStep ==
  ASSUME TransferInv, InSequence, [TransferNext]_transferVars
  PROVE  InSequence'
<1>1. UNCHANGED << conditions, bytes_read, blocksize >>
  <2>1. ClientStep => UNCHANGED << bytes_read, blocksize >>
    BY Sends DEF TransferInv, WireInv
  <2> QED
    BY <2>1, Zenon DEF TransferNext, ClientSends, Arrive, ServerReceives, ServerFails,
                       transferVars, clientVars
<1> SUFFICES ASSUME OnlyLoses, bytes_read >= blocksize
             PROVE  InLine'
  BY <1>1, Zenon DEF InSequence, OnlyLoses
<1>2. InLine
  BY Zenon DEF InSequence
<1>3. CASE ClientSends
  BY <1>2, <1>3, LineSends
<1>4. CASE Arrive
  BY <1>2, <1>4, LineArrives
<1>5. CASE ServerReceives
  BY <1>2, <1>5, LineReceives
<1>6. CASE ServerFails
  BY <1>6, Zenon DEF ServerFails, OnlyLoses
<1>7. CASE UNCHANGED transferVars
  <2>1. UNCHANGED << got, sockq, air >>
    BY <1>7, Zenon DEF transferVars, serverVars
  <2>2. Taken' = Taken
    BY <2>1, Zenon DEF Taken
  <2> QED
    BY <1>2, <2>1, <2>2, Zenon DEF InLine, Ordered, Ahead
<1> QED
  BY <1>3, <1>4, <1>5, <1>6, <1>7, Zenon DEF TransferNext

SequenceInv == TransferInv /\ FullLength /\ InSequence

LEMMA SequenceInvariant == TransferSpec => []SequenceInv
<1>1. TransferInit => SequenceInv
  <2> SUFFICES ASSUME TransferInit PROVE SequenceInv
    OBVIOUS
  <2>1. got = << >> /\ sockq = << >> /\ air = << >>
    BY Zenon DEF TransferInit, ServerInit
  <2>2. \A k : k \notin 1 .. Len(got) /\ k \notin 1 .. Len(sockq) /\ k \notin 1 .. Len(air)
    BY <2>1
  <2>3. FullLength
    BY <2>2, Zenon DEF FullLength
  <2>4. \A k : k \notin 1 .. Len(Taken)
    <3>1. Taken = << >>
      BY <2>1 DEF Taken
    <3> QED
      BY <3>1
  <2>5. InLine
    BY <2>2, <2>4, Zenon DEF InLine, Ordered, Ahead
  <2> QED
    BY <2>3, <2>5, TransferInvInit, Zenon DEF SequenceInv, InSequence
<1>2. SequenceInv /\ [TransferNext]_transferVars => SequenceInv'
  BY TransferInvStep, FullLengthStep, InSequenceStep DEF SequenceInv
<1> QED
  BY <1>1, <1>2, PTL DEF TransferSpec

\* The bytes that encode() is given are those of the datagram received, unless the
\* server's block size cuts it short.
LEMMA BytesReceived ==
  ASSUME TransferInv, FullLength, server_blocksize >= blocksize,
         NEW k \in 1 .. Len(fed), got[k] # << >>
  PROVE  /\ got[k][1] \in Sent
         /\ Len(fed[k]) = got[k][1].size
         /\ \A j \in 1 .. Len(fed[k]) : fed[k][j] = got[k][1].from + j - 1
<1>1. /\ ClientInv /\ got \in Seq(Calls) /\ Len(fed) = Len(got) /\ k \in 1 .. Len(got)
      /\ server_blocksize \in 0 .. NUM_ELEMENTS /\ NUM_ELEMENTS \in Nat
  BY ServerAssumption DEF ServerAssumption, TransferInv, WireInv, LoopInv
<1>2. got[k][1] \in Sent
  <2>1. got[k] \in Calls
    BY <1>1
  <2>2. PICK d \in Sent : got[k] = << d >>
    BY <2>1, Zenon DEF Calls
  <2> QED
    BY <2>2
<1>3. Len(fed[k]) = got[k][1].size
  BY <1>1, Zenon DEF FullLength
<1>4. blocksize \in Nat /\ got[k][1].size \in 1 .. blocksize
  BY <1>1, <1>2, Known, Division DEF ClientInv
<1>5. ASSUME NEW j \in 1 .. Len(fed[k])
      PROVE  fed[k][j] = got[k][1].from + j - 1
  <2>1. k \in 1 .. k /\ SameSlot(k, k)
    <3>1. k \in Nat /\ k \in 1 .. k /\ k - k = 0
      BY <1>1
    <3>2. 0 % NUM_PACKETS = 0
      BY Ring, ModSmall
    <3> QED
      BY <3>1, <3>2 DEF SameSlot
  <2>2. j <= got[k][1].size /\ j <= server_blocksize /\ j <= NUM_ELEMENTS
    BY <1>1, <1>3, <1>4
  <2>3. k \in Writers(k, j)
    BY <2>1, <2>2, Zenon DEF Writers, Wrote
  <2>4. Holds(got, fed[k][j], Writers(k, j), j)
    BY Zenon DEF TransferInv, MemoryInv
  <2>5. PICK m \in Writers(k, j) : k <= m /\ fed[k][j] = got[m][1].from + j - 1
    BY <2>3, <2>4, Zenon DEF Holds
  <2>6. m = k
    BY <1>1, <2>5 DEF Writers
  <2> QED
    BY <2>5, <2>6, Zenon
<1> QED
  BY <1>2, <1>3, <1>5

\* Over a network that only loses datagrams, what is encoded is a subsequence of
\* the file, however many are lost and wherever the socket buffer overflows.
THEOREM EncodesInOrder == TransferSpec => []InFileOrder
<1>1. ASSUME SequenceInv PROVE InFileOrder
  <2> SUFFICES ASSUME OnlyLoses, bytes_read >= blocksize, server_blocksize >= blocksize,
                      NEW k \in 1 .. Len(fed), NEW m \in 1 .. Len(fed),
                      NEW i \in 1 .. Len(fed[k]), NEW j \in 1 .. Len(fed[m]),
                      k < m \/ (k = m /\ i < j)
               PROVE  fed[k][i] < fed[m][j]
    BY Zenon DEF InFileOrder
  <2>1. TransferInv /\ FullLength /\ InLine /\ ClientInv /\ Len(fed) = Len(got)
    BY <1>1 DEF SequenceInv, InSequence, TransferInv, WireInv, LoopInv
  <2>2. got[k] # << >> /\ got[m] # << >>
    BY <2>1, Zenon DEF InLine
  <2> DEFINE d == got[k][1]
             e == got[m][1]
  <2>3. /\ d \in Sent /\ Len(fed[k]) = d.size /\ fed[k][i] = d.from + i - 1
        /\ e \in Sent /\ fed[m][j] = e.from + j - 1
    BY <2>1, <2>2, BytesReceived
  <2>4. d.from \in Nat /\ d.size \in Nat /\ e.from \in Nat
    <3>1. blocksize \in Nat
      BY <2>1, Division DEF ClientInv
    <3> QED
      BY <2>1, <2>3, <3>1, Known
  <2>5. i \in 1 .. d.size /\ j \in Nat /\ j >= 1
    <3>1. fed[m] \in Seq(Content)
      BY <2>1 DEF TransferInv, LoopInv
    <3> QED
      BY <2>3, <3>1
  <2>6. CASE k < m
    <3>1. Taken[k] = d /\ Taken[m] = e /\ k \in 1 .. Len(Taken) /\ m \in 1 .. Len(Taken)
      BY <2>1, TakenType DEF Taken, InLine, TransferInv
    <3>2. Before(d, e)
      BY <2>1, <2>6, <3>1, Zenon DEF InLine, Ordered
    <3>3. d.from + d.size <= e.from
      BY <3>2, Zenon DEF Before, End
    <3> HIDE DEF d, e
    <3>4. d.from + i - 1 < e.from + j - 1
      BY <2>4, <2>5, <3>3
    <3> QED
      BY <2>3, <3>4, Zenon
  <2>7. CASE k = m /\ i < j
    BY <2>3, <2>4, <2>5, <2>7
  <2> QED
    BY <2>6, <2>7
<1> QED
  BY <1>1, SequenceInvariant, PTL

-----------------------------------------------------------------------------
(* A network without faults.                                               *)

\* Nothing is lost, repeated or overtaken, no receive fails, the server takes
\* whole blocks, and every file has at least one block and datagrams that fit
\* into the socket buffer together.
Reliable ==
  /\ \A c \in Conditions : c.copies = {1} /\ ~c.reorders /\ ~c.fails
  /\ \A s \in ServerBlockSizes, b \in BlockSizes : s >= b
  /\ \A f \in FileSizes, b \in BlockSizes : f >= b /\ (f \div b) + 1 <= SOCKET_BUFFER

\* What is received, queued and on its way is, in this order, what was sent.
InPlace ==
  /\ Len(sent) = Len(got) + Len(sockq) + Len(air)
  /\ \A k \in 1 .. Len(got) : got[k] # << >> /\ got[k][1] = sent[k]
  /\ \A a \in 1 .. Len(sockq) : sockq[a] = sent[Len(got) + a]
  /\ \A a \in 1 .. Len(air) : air[a] = sent[Len(got) + Len(sockq) + a]

LEMMA WholeBlocks ==
  ASSUME Reliable, TransferInv
  PROVE  /\ bytes_read >= blocksize /\ server_blocksize >= blocksize
         /\ Len(sent) <= SOCKET_BUFFER
         /\ conditions.copies = {1} /\ ~conditions.reorders /\ ~conditions.fails
<1>1. /\ ClientInv /\ bytes_read \in FileSizes /\ blocksize \in BlockSizes
      /\ server_blocksize \in ServerBlockSizes /\ conditions \in Conditions
      /\ Len(sent) = n /\ n \in Nat
  BY DEF TransferInv, WireInv, LoopInv, ClientInv, ClientTypeOK
<1>2. bytes_read >= blocksize /\ server_blocksize >= blocksize /\ loops + 1 <= SOCKET_BUFFER
  BY <1>1, Zenon DEF Reliable, loops
<1>3. loops \in Nat /\ SOCKET_BUFFER \in Nat
  BY <1>1, Division, TransferAssumption DEF TransferAssumption, ClientInv
<1>4. CASE Len(sent) = 0
  <2>1. Len(sent) <= SOCKET_BUFFER
    BY <1>2, <1>3, <1>4
  <2> QED
    BY <1>1, <1>2, <2>1, Zenon DEF Reliable
<1>5. CASE Len(sent) # 0
  <2>1. Len(sent) \in 1 .. Len(sent)
    BY <1>1, <1>5
  <2>2. Len(sent) <= loops + 1
    BY <1>1, <1>2, <2>1, FromIs
  <2>3. Len(sent) <= SOCKET_BUFFER
    BY <1>1, <1>2, <1>3, <2>2
  <2> QED
    BY <1>1, <1>2, <2>3, Zenon DEF Reliable
<1> QED
  BY <1>4, <1>5

LEMMA PlaceSends ==
  ASSUME Reliable, TransferInv, InPlace, ClientSends
  PROVE  InPlace'
<1>1. /\ WireInv /\ ClientInv /\ ClientStep
      /\ UNCHANGED << sockq, got >>
  BY DEF TransferInv, WireInv, ClientSends, serverVars
<1>2. air' = air \o [ i \in 1 .. 1 |-> Last(sent') ]
  <2>1. conditions.copies = {1}
    BY WholeBlocks
  <2> QED
    BY <2>1 DEF ClientSends
<1>3. PICK e \in Sent' : e = Last(sent')
  BY <1>1, Sends
<1>4. air \in Seq(Sent')
  BY <1>1, Sends, MoreSent DEF TransferInv
<1>5. air' = Append(air, e)
  BY <1>2, <1>3, <1>4
<1>6. /\ Len(sent') = Len(sent) + 1 /\ Len(sent) \in Nat
      /\ \A k \in 1 .. Len(sent) : sent'[k] = sent[k]
      /\ e = sent'[Len(sent) + 1]
  <2>1. \E from, size, last : Send(from, size, last)
    BY <1>1, Zenon DEF ClientStep, SendBlock, SendLastBlock, SendLastBlockAsNormal, SendRemainder
  <2>2. PICK d : sent' = Append(sent, d)
    BY <2>1 DEF Send
  <2>3. sent \in Seq([ header : [ low : Byte, high : Byte ], from : Nat, size : 1 .. MAX_BLOCKSIZE ])
    BY <1>1, Zenon DEF ClientInv, ClientTypeOK
  <2>4. /\ Len(sent') = Len(sent) + 1 /\ Len(sent) \in Nat
        /\ \A k \in 1 .. Len(sent) : sent'[k] = sent[k]
    BY <2>2, <2>3
  <2> QED
    BY <1>3, <2>4, Zenon DEF Last
<1>7. /\ Len(got) \in Nat /\ Len(sockq) \in Nat /\ Len(air) \in Nat
      /\ Len(air') = Len(air) + 1 /\ air'[Len(air) + 1] = e
      /\ \A a \in 1 .. Len(air) : air'[a] = air[a]
  <2>1. Len(got) \in Nat /\ Len(sockq) \in Nat
    BY <1>1 DEF WireInv
  <2> QED
    BY <1>4, <1>5, <2>1, Longer
<1>8. Len(sent') = Len(got') + Len(sockq') + Len(air')
  BY <1>1, <1>6, <1>7 DEF InPlace
<1>9. \A k \in 1 .. Len(got') : got'[k] # << >> /\ got'[k][1] = sent'[k]
  <2>1. \A k \in 1 .. Len(got) : k \in 1 .. Len(sent)
    BY <1>6, <1>7 DEF InPlace
  <2> QED
    BY <1>1, <1>6, <2>1, Zenon DEF InPlace
<1>10. \A a \in 1 .. Len(sockq') : sockq'[a] = sent'[Len(got') + a]
  <2>1. \A a \in 1 .. Len(sockq) : Len(got) + a \in 1 .. Len(sent)
    BY <1>6, <1>7 DEF InPlace
  <2> QED
    BY <1>1, <1>6, <2>1, Zenon DEF InPlace
<1>11. \A a \in 1 .. Len(air') : air'[a] = sent'[Len(got') + Len(sockq') + a]
  <2>1. \A a \in 1 .. Len(air) : Len(got) + Len(sockq) + a \in 1 .. Len(sent)
    BY <1>6, <1>7 DEF InPlace
  <2>2. Len(got) + Len(sockq) + (Len(air) + 1) = Len(sent) + 1
    BY <1>6, <1>7 DEF InPlace
  <2>3. \A a \in 1 .. Len(air') : a \in 1 .. Len(air) \/ a = Len(air) + 1
    BY <1>7
  <2> QED
    BY <1>1, <1>6, <1>7, <2>1, <2>2, <2>3, Zenon DEF InPlace
<1> QED
  BY <1>8, <1>9, <1>10, <1>11 DEF InPlace

LEMMA PlaceArrives ==
  ASSUME Reliable, TransferInv, InPlace, Arrive
  PROVE  InPlace'
<1>1. PICK i \in 1 .. Len(air) :
        /\ i = 1 \/ conditions.reorders
        /\ air' = RemoveAt(air, i)
        /\ sockq' = IF Len(sockq) < SOCKET_BUFFER THEN Append(sockq, air[i]) ELSE sockq
        /\ UNCHANGED << got, sent >>
  BY DEF Arrive, clientVars
<1>2. air \in Seq(Sent) /\ sockq \in Seq(Sent) /\ got \in Seq(Calls)
  BY DEF TransferInv, WireInv
<1>3. i = 1
  BY <1>1, WholeBlocks, Zenon
<1>4. air # << >> /\ air[1] = Head(air) /\ air' = Tail(air)
  <2>1. Len(air) >= 1
    BY <1>1, <1>2
  <2> QED
    BY <1>1, <1>2, <1>3, <2>1, FirstRemoved
<1>5. sockq' = Append(sockq, air[1])
  <2>1. Len(sockq) < SOCKET_BUFFER
    <3>1. Len(sent) <= SOCKET_BUFFER /\ SOCKET_BUFFER \in Nat
      BY WholeBlocks, TransferAssumption DEF TransferAssumption
    <3>2. Len(got) \in Nat /\ Len(sockq) \in Nat /\ Len(air) \in Nat /\ Len(air) >= 1
      BY <1>1, <1>2
    <3> QED
      BY <3>1, <3>2 DEF InPlace
  <2> QED
    BY <1>1, <1>3, <2>1
<1>6. /\ Len(got) \in Nat /\ Len(sockq) \in Nat /\ Len(air) \in Nat \ {0}
      /\ air[1] \in Sent /\ Len(air') = Len(air) - 1
      /\ \A a \in 1 .. Len(air') : air'[a] = air[a + 1] /\ a + 1 \in 1 .. Len(air)
  BY <1>2, <1>4
<1>7. /\ Len(sockq') = Len(sockq) + 1 /\ sockq'[Len(sockq) + 1] = air[1]
      /\ \A a \in 1 .. Len(sockq) : sockq'[a] = sockq[a]
  BY <1>2, <1>5, <1>6, Longer
<1>8. Len(sent') = Len(got') + Len(sockq') + Len(air')
  <2>1. Len(sent) = Len(got) + Len(sockq) + Len(air)
    BY Zenon DEF InPlace
  <2> QED
    BY <1>1, <1>6, <1>7, <2>1
<1>9. ASSUME NEW a \in 1 .. Len(sockq') PROVE sockq'[a] = sent'[Len(got') + a]
  <2>1. CASE a \in 1 .. Len(sockq)
    BY <1>1, <1>7, <2>1, Zenon DEF InPlace
  <2>2. CASE a = Len(sockq) + 1
    <3>1. Len(got) + Len(sockq) + 1 = Len(got) + a /\ 1 \in 1 .. Len(air)
      BY <1>6, <2>2
    <3>2. air[1] = sent[Len(got) + Len(sockq) + 1]
      BY <3>1, Zenon DEF InPlace
    <3> QED
      BY <1>1, <1>7, <2>2, <3>1, <3>2, Zenon
  <2> QED
    BY <1>6, <1>7, <2>1, <2>2
<1>10. ASSUME NEW a \in 1 .. Len(air') PROVE air'[a] = sent'[Len(got') + Len(sockq') + a]
  <2>1. Len(got) + Len(sockq) + (a + 1) = Len(got) + (Len(sockq) + 1) + a
    BY <1>6
  <2>2. air[a + 1] = sent[Len(got) + Len(sockq) + (a + 1)]
    BY <1>6, Zenon DEF InPlace
  <2> QED
    BY <1>1, <1>6, <1>7, <2>1, <2>2, Zenon
<1> QED
  BY <1>1, <1>8, <1>9, <1>10, Zenon DEF InPlace

LEMMA PlaceReceives ==
  ASSUME TransferInv, InPlace, ServerReceives
  PROVE  InPlace' /\ sockq # << >> /\ Head(sockq) = sent[Len(got) + 1] /\ Len(got) + 1 \in 1 .. Len(sent)
<1>1. /\ sockq # << >> /\ sockq' = Tail(sockq)
      /\ got' = Append(got, << Head(sockq) >>)
      /\ UNCHANGED << air, sent >>
  BY DEF ServerReceives, GetPacket, clientVars
<1>2. air \in Seq(Sent) /\ sockq \in Seq(Sent) /\ got \in Seq(Calls)
  BY DEF TransferInv, WireInv
<1>3. /\ Len(got) \in Nat /\ Len(sockq) \in Nat \ {0} /\ Len(air) \in Nat
      /\ Head(sockq) = sockq[1] /\ Head(sockq) \in Sent /\ 1 \in 1 .. Len(sockq)
      /\ Len(sockq') = Len(sockq) - 1
      /\ \A a \in 1 .. Len(sockq') : sockq'[a] = sockq[a + 1] /\ a + 1 \in 1 .. Len(sockq)
  BY <1>1, <1>2
<1>4. Head(sockq) = sent[Len(got) + 1]
  BY <1>3, Zenon DEF InPlace
<1>5. << Head(sockq) >> \in Calls /\ << Head(sockq) >> # << >> /\ << Head(sockq) >>[1] = Head(sockq)
  BY <1>3 DEF Calls
<1>6. /\ Len(got') = Len(got) + 1 /\ got'[Len(got) + 1] = << Head(sockq) >>
      /\ \A k \in 1 .. Len(got) : got'[k] = got[k]
  BY <1>1, <1>2, <1>5, Longer
<1>7. Len(sent') = Len(got') + Len(sockq') + Len(air') /\ Len(got) + 1 \in 1 .. Len(sent)
  <2>1. Len(sent) = Len(got) + Len(sockq) + Len(air)
    BY Zenon DEF InPlace
  <2> QED
    BY <1>1, <1>3, <1>6, <2>1
<1>8. \A k \in 1 .. Len(got') : got'[k] # << >> /\ got'[k][1] = sent'[k]
  <2>1. \A k \in 1 .. Len(got') : k \in 1 .. Len(got) \/ k = Len(got) + 1
    BY <1>3, <1>6
  <2> QED
    BY <1>1, <1>4, <1>5, <1>6, <2>1, Zenon DEF InPlace
<1>9. ASSUME NEW a \in 1 .. Len(sockq') PROVE sockq'[a] = sent'[Len(got') + a]
  <2>1. Len(got) + (a + 1) = (Len(got) + 1) + a
    BY <1>3
  <2>2. sockq[a + 1] = sent[Len(got) + (a + 1)]
    BY <1>3, Zenon DEF InPlace
  <2> QED
    BY <1>1, <1>3, <1>6, <2>1, <2>2, Zenon
<1>10. \A a \in 1 .. Len(air') : air'[a] = sent'[Len(got') + Len(sockq') + a]
  <2>1. Len(got') + Len(sockq') = Len(got) + Len(sockq)
    BY <1>3, <1>6
  <2> QED
    BY <1>1, <2>1, Zenon DEF InPlace
<1> QED
  BY <1>1, <1>4, <1>7, <1>8, <1>9, <1>10, Zenon DEF InPlace

\* The datagram that ends where the file ends is the one with the done bit.
LEMMA DoneAtEnd ==
  ASSUME ClientInv, bytes_read >= blocksize, NEW k \in 1 .. Len(sent)
  PROVE  /\ End(sent[k]) <= bytes_read
         /\ IsDone(sent[k].header) <=> End(sent[k]) = bytes_read
<1>1. /\ ClientTypeOK /\ n \in Nat /\ Len(sent) = n
      /\ bytes_read \in Nat /\ blocksize \in Nat \ {0} /\ loops \in Nat
      /\ remainder \in 0 .. blocksize - 1 /\ bytes_read = loops * blocksize + remainder
  BY Division DEF ClientInv, ClientTypeOK
<1>2. HeaderTellsTruth /\ SentFileOnce
  BY TellsTruth, SendsOnce
<1>3. \A m \in 1 .. Len(sent) : sent[m].from \in Nat /\ sent[m].size \in 1 .. blocksize
  <2>1. \A m \in 1 .. Len(sent) : sent[m] \in Sent
    BY Zenon DEF Sent
  <2> QED
    BY <2>1, Known
<1>4. \A m \in 1 .. Len(sent) : End(sent[m]) <= bytes_read
  BY <1>2, Zenon DEF SentFileOnce
<1>5. IsDone(sent[k].header) => End(sent[k]) = bytes_read
  <2>1. sent[k] \in Sent
    BY Zenon DEF Sent
  <2> QED
    BY <2>1, Known
<1>6. ASSUME End(sent[k]) = bytes_read PROVE IsDone(sent[k].header)
  <2>1. k = Len(sent)
    <3> SUFFICES ASSUME k # Len(sent) PROVE FALSE
      OBVIOUS
    <3>1. PICK m \in 1 .. Len(sent) : m = k + 1
      BY <1>1
    <3>2. m # 1 /\ m - 1 = k
      BY <1>1, <3>1
    <3>3. sent[m].from = bytes_read
      BY <1>2, <1>6, <3>2, Zenon DEF SentFileOnce
    <3>4. sent[m].from + sent[m].size <= bytes_read
      BY <1>4, Zenon DEF End
    <3>5. sent[m].size \in 1 .. blocksize
      BY <1>3
    <3> QED
      BY <1>1, <3>3, <3>4, <3>5
  <2>2. sent[k].from = (n - 1) * blocksize /\ Blocks = loops /\ sent[k].size \in 1 .. blocksize
    BY <1>1, <1>3, <2>1, FromIs
  <2>3. bytes_read <= n * blocksize
    <3>1. sent[k].from + sent[k].size = bytes_read
      BY <1>6, Zenon DEF End
    <3>2. (n - 1) * blocksize + blocksize = n * blocksize /\ (n - 1) * blocksize \in Nat
      BY <1>1, <2>1
    <3> QED
      BY <1>1, <2>2, <3>1, <3>2
  <2>4. stage = "sent"
    <3>1. stage \in {"blocks", "remainder", "sent"}
      BY <1>1, Zenon DEF ClientTypeOK
    <3>2. stage # "blocks"
      <4> SUFFICES ASSUME stage = "blocks" PROVE FALSE
        OBVIOUS
      <4>1. n < loops
        BY <2>2 DEF ClientInv
      <4>2. (n + 1) * blocksize <= loops * blocksize
        <5>1. n + 1 \in Nat /\ n + 1 <= loops
          BY <1>1, <4>1
        <5> QED
          BY <1>1, <5>1, TimesMonotone
      <4>3. (n + 1) * blocksize = n * blocksize + blocksize /\ n * blocksize \in Nat
            /\ loops * blocksize \in Nat
        BY <1>1
      <4> QED
        BY <1>1, <2>3, <4>2, <4>3
    <3>3. stage # "remainder"
      <4> SUFFICES ASSUME stage = "remainder" PROVE FALSE
        OBVIOUS
      <4>1. n = loops /\ remainder # 0
        BY <2>2 DEF ClientInv
      <4>2. PICK z \in Nat : z = loops * blocksize
        BY <1>1
      <4>3. bytes_read <= z /\ bytes_read = z + remainder
        BY <1>1, <2>3, <4>1, <4>2
      <4> QED
        BY <1>1, <4>1, <4>3
    <3> QED
      BY <3>1, <3>2, <3>3
  <2> QED
    BY <1>2, <2>1, <2>4, Zenon DEF HeaderTellsTruth
<1> QED
  BY <1>4, <1>5, <1>6

\* What encode() is given when a receive has put this datagram into a slot.
LEMMA PayloadIsPiece ==
  ASSUME ClientInv, NEW d \in Sent, NEW slot \in Slots,
         d.size <= server_blocksize, server_blocksize \in 0 .. NUM_ELEMENTS
  PROVE  Payload(Received(d, slot), d.size) = FT!Piece(d.from, End(d))
<1>1. /\ d.from \in Nat /\ d.size \in Nat /\ NUM_ELEMENTS \in Nat
      /\ \A j \in 1 .. d.size : j <= d.size /\ j <= server_blocksize /\ j <= NUM_ELEMENTS
                                /\ j \in 1 .. NUM_ELEMENTS
  <2>1. d.from \in Nat /\ d.size \in 1 .. blocksize /\ blocksize \in Nat
    BY Known, Division DEF ClientInv
  <2> QED
    BY <2>1, ServerAssumption DEF ServerAssumption
<1>2. End(d) - d.from = d.size
  BY <1>1 DEF End
<1>3. PICK full : full = Received(d, slot)
  OBVIOUS
<1>4. \A j \in 1 .. d.size : full.data[j] = d.from + j - 1
  BY <1>1, <1>3, Receiving, Zenon
<1>5. Payload(full, d.size) = [ j \in 1 .. d.size |-> d.from + j - 1 ]
  BY <1>1, <1>4, Zenon DEF Payload
<1> QED
  BY <1>2, <1>3, <1>5, Zenon DEF FT!Piece

\* The next piece starts where the next datagram does.
LEMMA NextPiece ==
  ASSUME Reliable, TransferInv, FullLength, InPlace, Len(got) + 1 \in 1 .. Len(sent)
  PROVE  FT!Delivered = sent[Len(got) + 1].from
<1>1. /\ ClientInv /\ Len(fed) = Len(got) /\ Len(got) \in Nat /\ fed \in Seq(Seq(Content))
      /\ bytes_read >= blocksize /\ server_blocksize >= blocksize
  BY WholeBlocks DEF TransferInv, WireInv, LoopInv
<1>2. SentFileOnce
  BY <1>1, SendsOnce
<1>3. CASE fed = << >>
  <2>1. Len(got) + 1 = 1
    BY <1>1, <1>3
  <2>2. sent[Len(got) + 1].from = 0
    BY <1>1, <1>2, <2>1, Zenon DEF SentFileOnce
  <2> QED
    BY <1>3, <2>2, Zenon DEF FT!Delivered
<1>4. CASE fed # << >>
  <2>1. PICK k \in 1 .. Len(fed) : k = Len(fed)
    BY <1>1, <1>4
  <2>2. /\ got[k] # << >> /\ got[k][1] = sent[k]
        /\ k \in 1 .. Len(sent) /\ Len(got) + 1 # 1 /\ (Len(got) + 1) - 1 = k
    BY <1>1, <2>1 DEF InPlace
  <2>3. /\ sent[k] \in Sent /\ Len(fed[k]) = sent[k].size
        /\ \A j \in 1 .. Len(fed[k]) : fed[k][j] = sent[k].from + j - 1
    BY <1>1, <2>2, BytesReceived, Zenon
  <2>4. sent[k].size \in 1 .. blocksize /\ sent[k].from \in Nat /\ blocksize \in Nat
    BY <1>1, <2>3, Known, Division DEF ClientInv
  <2>5. fed[k][Len(fed[k])] = sent[k].from + sent[k].size - 1
    <3>1. Len(fed[k]) \in 1 .. Len(fed[k])
      BY <2>3, <2>4
    <3> QED
      BY <2>3, <3>1, Zenon
  <2>6. FT!Delivered = fed[k][Len(fed[k])] + 1
    BY <1>4, <2>1, Zenon DEF FT!Delivered
  <2>7. sent[Len(got) + 1].from = End(sent[k])
    BY <1>1, <1>2, <2>2, Zenon DEF SentFileOnce
  <2> QED
    BY <2>4, <2>5, <2>6, <2>7 DEF End
<1> QED
  BY <1>3, <1>4

\* A turn of the receive loop is a step of FileTransfer.
LEMMA Delivers ==
  ASSUME Reliable, TransferInv, FullLength, InPlace, ServerReceives
  PROVE  FT!Deliver
<1>1. /\ WireInv /\ LoopInv /\ ClientInv /\ Len(got) \in Nat
      /\ bytes_read >= blocksize /\ server_blocksize >= blocksize
      /\ server_blocksize \in 0 .. NUM_ELEMENTS
  BY WholeBlocks, ServerAssumption DEF ServerAssumption, TransferInv, WireInv, LoopInv
<1>2. PICK k \in 1 .. Len(sent) : k = Len(got) + 1 /\ Head(sockq) = sent[k]
  BY PlaceReceives
<1>3. PICK d \in Sent : d = sent[k]
  BY Zenon DEF Sent
<1>4. ~done /\ Decode(Received(d, input[Slot])) /\ bytes_read' = bytes_read
  BY <1>2, <1>3, Zenon DEF ServerReceives, GetPacket, clientVars
<1>5. PICK slot \in Slots : slot = input[Slot]
  BY <1>1, SlotNow
<1>6. Received(d, slot) \in Slots /\ HeadersIn(Received(d, slot)) = {d.header}
  BY <1>1, Receiving, Zenon
<1>7. Turn(Received(d, slot), d.header)
  BY <1>1, <1>4, <1>5, <1>6, Turning, Zenon
<1>8. /\ d.from \in Nat /\ d.size \in 1 .. blocksize /\ LengthOf(d.header) = d.size
      /\ blocksize \in Nat
  BY <1>1, Known, Division DEF ClientInv
<1>9. fed' = Append(fed, FT!Piece(d.from, End(d)))
  <2>1. d.size <= server_blocksize
    BY <1>1, <1>8
  <2>2. Payload(Received(d, slot), d.size) = FT!Piece(d.from, End(d))
    BY <1>1, <2>1, PayloadIsPiece
  <2> QED
    BY <1>7, <1>8, <2>2, Zenon DEF Turn
<1>10. FT!Delivered = d.from
  BY <1>2, <1>3, NextPiece
<1>11. End(d) \in FT!Delivered + 1 .. bytes_read /\ (IsDone(d.header) <=> End(d) = bytes_read)
  <2>1. End(d) <= bytes_read /\ (IsDone(d.header) <=> End(d) = bytes_read)
    BY <1>1, <1>3, DoneAtEnd, Zenon
  <2>2. bytes_read \in Nat
    BY <1>1, Division DEF ClientInv
  <2>3. End(d) \in Nat /\ End(d) >= d.from + 1
    BY <1>8 DEF End
  <2> QED
    BY <1>8, <1>10, <2>1, <2>2, <2>3
<1>12. done' = (End(d) = bytes_read)
  <2>1. done' = IsDone(d.header)
    BY <1>7, Zenon DEF Turn
  <2>2. IsDone(d.header) \in BOOLEAN
    BY DEF IsDone
  <2> QED
    BY <1>11, <2>1, <2>2, Zenon
<1> QED
  BY <1>4, <1>9, <1>10, <1>11, <1>12, Zenon DEF FT!Deliver

\* A network without faults stays so.
DeliveryInv == Reliable /\ InPlace

\* On a network without faults, client and receive loop implement FileTransfer
\* but for its liveness: encode() is given the file piece by piece, in order and
\* without a gap, and done is set exactly with the last piece; for every file,
\* block size and ring, and whenever the datagrams arrive.
THEOREM DeliversPieces == Reliable /\ TransferSpec => FT!Safety
<1>1. Reliable /\ TransferInit => DeliveryInv /\ FT!Init
  <2> SUFFICES ASSUME Reliable, TransferInit PROVE DeliveryInv /\ FT!Init
    OBVIOUS
  <2>1. /\ got = << >> /\ sockq = << >> /\ air = << >> /\ sent = << >>
        /\ fed = << >> /\ done = FALSE /\ bytes_read \in FileSizes
    BY Zenon DEF TransferInit, ServerInit, ClientInit
  <2>2. InPlace
    BY <2>1 DEF InPlace
  <2> QED
    BY <2>1, <2>2, Zenon DEF FT!Init, DeliveryInv
<1>2. SequenceInv /\ Reliable /\ InPlace /\ [TransferNext]_transferVars
        => InPlace' /\ [FT!Deliver]_(FT!vars)
  <2> SUFFICES ASSUME Reliable, SequenceInv, InPlace, [TransferNext]_transferVars
               PROVE  InPlace' /\ [FT!Deliver]_(FT!vars)
    OBVIOUS
  <2>1. TransferInv /\ FullLength
    BY DEF SequenceInv
  <2>2. CASE ClientSends
    <3>1. UNCHANGED << bytes_read, fed, done >>
      BY <2>1, <2>2, Sends DEF TransferInv, WireInv, ClientSends, serverVars
    <3> QED
      BY <2>1, <2>2, <3>1, PlaceSends DEF FT!vars
  <2>3. CASE Arrive
    <3>1. UNCHANGED << bytes_read, fed, done >>
      BY <2>3 DEF Arrive, clientVars
    <3> QED
      BY <2>1, <2>3, <3>1, PlaceArrives DEF FT!vars
  <2>4. CASE ServerReceives
    BY <2>1, <2>4, PlaceReceives, Delivers
  <2>5. CASE ServerFails
    BY <2>1, <2>5, WholeBlocks, Zenon DEF ServerFails
  <2>6. CASE UNCHANGED transferVars
    <3>1. UNCHANGED << bytes_read, fed, done, sent, got, sockq, air >>
      BY <2>6 DEF transferVars, clientVars, serverVars
    <3> QED
      BY <3>1 DEF FT!vars, InPlace
  <2> QED
    BY <2>2, <2>3, <2>4, <2>5, <2>6, Zenon DEF TransferNext
<1>3. SequenceInv /\ DeliveryInv /\ [TransferNext]_transferVars
        => DeliveryInv' /\ [FT!Deliver]_(FT!vars)
  <2>1. Reliable => Reliable'
    BY DEF Reliable
  <2> QED
    BY <1>2, <2>1 DEF DeliveryInv
<1> QED
  BY <1>1, <1>3, SequenceInvariant, PTL DEF TransferSpec, FT!Safety
=============================================================================
