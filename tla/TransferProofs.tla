--------------------------- MODULE TransferProofs ---------------------------
(***************************************************************************)
(* Proofs about Transfer, for every file, block size, ring and socket      *)
(* buffer and for every network: which datagrams the receive loop can see, *)
(* when it ends, and where the bytes come from that it encodes.  What it   *)
(* delivers as a whole (InFileOrder, DeliversFile) is a fold over the      *)
(* packets and is left to TLC, as are the liveness properties.             *)
(***************************************************************************)
EXTENDS Transfer, ClientProofs, SequenceTheorems

\* Only what the client has sent is on its way, queued or received.
Sent == { sent[k] : k \in 1 .. Len(sent) }

Calls == { << >> } \cup { << d >> : d \in Sent }

WireInv ==
  /\ ClientInv
  /\ conditions \in Conditions
  /\ air \in Seq(Sent)
  /\ sockq \in Seq(Sent)
  /\ Len(sockq) <= SOCKET_BUFFER
  /\ got \in Seq(Calls)

\* What a slot can hold.
Headers == [ low : Byte, high : Byte ]
Content == Nat \cup {Garbage}
Slots == [ header : {Unwritten.header} \cup Headers, data : [ 1 .. NUM_ELEMENTS -> Content ] ]

\* The k-th packet goes into this slot.
SlotOf(k) == (pipe_depth + k - 1) % NUM_PACKETS

LoopInv ==
  /\ server_blocksize \in ServerBlockSizes
  /\ input \in [ 0 .. NUM_PACKETS - 1 -> Slots ]
  /\ writer \in 0 .. NUM_PACKETS
  /\ Slot = SlotOf(Len(got) + 1)
  /\ done \in BOOLEAN
  /\ fed \in Seq(Seq(Content))
  /\ Len(fed) = Len(got)

\* A byte that holds what the last of the receives S of the calls g put there.
Holds(g, byte, S, j) ==
  \/ S = {} /\ byte = Garbage
  \/ \E m \in S : (\A x \in S : x <= m) /\ byte = g[m][1].from + j - 1

\* The receives that wrote byte j of slot w.
Stores(w, j) == { m \in 1 .. Len(got) : SlotOf(m) = w /\ Wrote(m, j) }

MemoryInv ==
  /\ \A w \in 0 .. NUM_PACKETS - 1 :
       \A j \in 1 .. NUM_ELEMENTS : Holds(got, input[w].data[j], Stores(w, j), j)
  /\ \A k \in 1 .. Len(fed) :
       \A j \in 1 .. Len(fed[k]) : Holds(got, fed[k][j], Writers(k, j), j)

TransferInv ==
  /\ WireInv
  /\ LoopInv
  /\ StopsAtFirstDone
  /\ MemoryInv

-----------------------------------------------------------------------------
(* Slots.                                                                  *)

\* Division with remainder is unique.
LEMMA Unique ==
  ASSUME NEW b \in Nat \ {0}, NEW q \in Nat, NEW r \in 0 .. b - 1, NEW a \in Nat,
         a = q * b + r
  PROVE  a % b = r
OBVIOUS

LEMMA NextRemainder ==
  ASSUME NEW a \in Nat, NEW b \in Nat \ {0}
  PROVE  (a + 1) % b = IF a % b = b - 1 THEN 0 ELSE (a % b) + 1
<1> DEFINE q == a \div b
           r == a % b
<1>1. q \in Nat /\ r \in 0 .. b - 1 /\ a = q * b + r
  BY DivMod
<1> HIDE DEF q, r
<1>2. CASE r = b - 1
  <2>1. a + 1 = (q + 1) * b + 0
    BY <1>1, <1>2
  <2>2. (a + 1) % b = 0
    BY <1>1, <2>1, Unique
  <2> QED
    BY <1>2, <2>2 DEF r
<1>3. CASE r # b - 1
  <2>1. a + 1 = q * b + (r + 1) /\ r + 1 \in 0 .. b - 1
    BY <1>1, <1>3
  <2>2. (a + 1) % b = r + 1
    BY <1>1, <2>1, Unique
  <2> QED
    BY <1>3, <2>2 DEF r
<1> QED
  BY <1>2, <1>3

LEMMA Multiple ==
  ASSUME NEW b \in Nat \ {0}, NEW u \in Nat, NEW v \in Nat, u <= v
  PROVE  (v - u) % b = 0 <=> u % b = v % b
<1> DEFINE q == u \div b
           r == u % b
           s == v \div b
           t == v % b
           x == (v - u) \div b
           y == (v - u) % b
<1>1. q \in Nat /\ r \in 0 .. b - 1 /\ u = q * b + r
  BY DivMod
<1>2. s \in Nat /\ t \in 0 .. b - 1 /\ v = s * b + t
  BY DivMod
<1>3. x \in Nat /\ y \in 0 .. b - 1 /\ v - u = x * b + y
  <2>1. v - u \in Nat
    OBVIOUS
  <2> QED
    BY <2>1, DivMod
<1>4. y = (v - u) % b /\ t = v % b /\ r = u % b
  OBVIOUS
<1> HIDE DEF q, r, s, t, x, y
<1>5. ASSUME y = 0 PROVE t = r
  <2>1. PICK z \in Nat : z = q + x
    BY <1>1, <1>3
  <2>2. v = z * b + r
    BY <1>1, <1>3, <1>5, <2>1
  <2>3. v % b = r
    BY <1>1, <2>2, Unique
  <2> QED
    BY <1>4, <2>3
<1>6. ASSUME t = r PROVE y = 0
  <2>1. q <= s
    <3>1. SUFFICES ASSUME s + 1 <= q PROVE FALSE
      BY <1>1, <1>2
    <3>2. (s + 1) * b <= q * b
      BY <1>1, <1>2, <3>1, TimesMonotone
    <3>3. (s + 1) * b = s * b + b
      BY <1>2
    <3> QED
      BY <1>1, <1>2, <1>6, <3>2, <3>3
  <2>2. PICK z \in Nat : z = s - q
    BY <1>1, <1>2, <2>1
  <2>3. PICK a \in Nat : a = v - u
    OBVIOUS
  <2>4. a = z * b + 0 /\ 0 \in 0 .. b - 1
    BY <1>1, <1>2, <1>6, <2>2, <2>3
  <2>5. a % b = 0
    BY <2>4, Unique
  <2> QED
    BY <1>4, <2>3, <2>5
<1> QED
  BY <1>4, <1>5, <1>6

LEMMA Ring ==
  NUM_PACKETS \in Nat \ {0} /\ pipe_depth \in 0 .. NUM_PACKETS - 1
BY ServerAssumption DEF ServerAssumption

\* Two packets share a slot when a multiple of NUM_PACKETS lies between them.
LEMMA SlotsMeet ==
  ASSUME NEW k \in Nat, NEW m \in 1 .. k
  PROVE  SameSlot(m, k) <=> SlotOf(m) = SlotOf(k)
<1> DEFINE u == pipe_depth + m - 1
           v == pipe_depth + k - 1
<1>1. NUM_PACKETS \in Nat \ {0} /\ u \in Nat /\ v \in Nat /\ u <= v /\ k - m = v - u
  BY Ring
<1> HIDE DEF u, v
<1>2. (v - u) % NUM_PACKETS = 0 <=> u % NUM_PACKETS = v % NUM_PACKETS
  BY <1>1, Multiple
<1> QED
  BY <1>1, <1>2, Zenon DEF SameSlot, SlotOf, u, v

\* From one packet to the next.
LEMMA NextSlot ==
  ASSUME NEW k \in Nat \ {0}
  PROVE  /\ SlotOf(k) \in 0 .. NUM_PACKETS - 1
         /\ SlotOf(k + 1) = IF SlotOf(k) = NUM_PACKETS - 1 THEN 0 ELSE SlotOf(k) + 1
<1> DEFINE a == pipe_depth + k - 1
<1>1. NUM_PACKETS \in Nat \ {0} /\ a \in Nat /\ pipe_depth + (k + 1) - 1 = a + 1
  BY Ring
<1> HIDE DEF a
<1>2. (a + 1) % NUM_PACKETS = IF a % NUM_PACKETS = NUM_PACKETS - 1 THEN 0 ELSE (a % NUM_PACKETS) + 1
  BY <1>1, NextRemainder, Zenon
<1>3. a % NUM_PACKETS \in 0 .. NUM_PACKETS - 1
  BY <1>1, DivMod
<1> QED
  BY <1>1, <1>2, <1>3, Zenon DEF SlotOf, a

-----------------------------------------------------------------------------
(* The client and the network.                                             *)

LEMMA Removing ==
  ASSUME NEW S, NEW s \in Seq(S), NEW i \in 1 .. Len(s)
  PROVE  RemoveAt(s, i) \in Seq(S) /\ s[i] \in S
<1>1. SubSeq(s, 1, i - 1) \in Seq(S) /\ SubSeq(s, i + 1, Len(s)) \in Seq(S) /\ s[i] \in S
  OBVIOUS
<1> QED
  BY <1>1 DEF RemoveAt

\* A step of the client adds to what is sent and changes nothing of it.
LEMMA Sends ==
  ASSUME ClientInv, ClientStep
  PROVE  ClientInv' /\ Sent \subseteq Sent' /\ Last(sent') \in Sent' /\ bytes_read' = bytes_read
         /\ blocksize' = blocksize
<1>1. ClientInv'
  BY InvStep
<1>2. \E from, size, last : Send(from, size, last)
  BY Zenon DEF ClientStep, SendBlock, SendLastBlock, SendLastBlockAsNormal, SendRemainder
<1>3. PICK d : sent' = Append(sent, d) /\ bytes_read' = bytes_read /\ blocksize' = blocksize
  BY <1>2 DEF Send
<1>4. sent \in Seq([ header : [ low : Byte, high : Byte ], from : Nat, size : 1 .. MAX_BLOCKSIZE ])
      /\ sent' \in Seq([ header : [ low : Byte, high : Byte ], from : Nat, size : 1 .. MAX_BLOCKSIZE ])'
  BY <1>1, Zenon DEF ClientInv, ClientTypeOK
<1>5. /\ Len(sent') = Len(sent) + 1 /\ Len(sent) \in Nat
      /\ \A k \in 1 .. Len(sent) : sent'[k] = sent[k]
  BY <1>3, <1>4
<1>6. Sent \subseteq Sent'
  BY <1>5 DEF Sent
<1>7. Last(sent') \in Sent'
  BY <1>5 DEF Sent, Last
<1> QED
  BY <1>1, <1>3, <1>6, <1>7

LEMMA MoreSent ==
  ASSUME WireInv, Sent \subseteq Sent', UNCHANGED << sockq, got >>
  PROVE  /\ air \in Seq(Sent')
         /\ sockq' \in Seq(Sent')
         /\ got' \in Seq(Calls')
<1>1. air \in Seq(Sent') /\ sockq' \in Seq(Sent')
  BY SeqMonotonic DEF WireInv
<1>2. got \in Seq(Calls)
  BY Zenon DEF WireInv, Calls
<1>3. Calls \subseteq Calls'
  BY Zenon DEF Calls
<1> QED
  BY <1>1, <1>2, <1>3, SeqMonotonic

LEMMA WireSends == WireInv /\ ClientSends => WireInv'
<1> SUFFICES ASSUME WireInv, ClientSends PROVE WireInv'
  OBVIOUS
<1>1. /\ ClientStep
      /\ UNCHANGED << sockq, got, conditions >>
      /\ ClientInv
  BY DEF ClientSends, serverVars, WireInv
<1>2. PICK copies \in conditions.copies : air' = air \o [ i \in 1 .. copies |-> Last(sent') ]
  BY DEF ClientSends
<1>3. copies \in Nat
  BY TransferAssumption DEF TransferAssumption, WireInv
<1>4. ClientInv' /\ Sent \subseteq Sent' /\ Last(sent') \in Sent'
  BY <1>1, Sends
<1>5. air \in Seq(Sent') /\ sockq' \in Seq(Sent') /\ got' \in Seq(Calls')
  BY <1>1, <1>4, MoreSent
<1>6. [ i \in 1 .. copies |-> Last(sent') ] \in Seq(Sent')
  BY <1>3, <1>4
<1>7. air' \in Seq(Sent')
  BY <1>2, <1>5, <1>6
<1> QED
  BY <1>1, <1>4, <1>5, <1>7, Zenon DEF WireInv, Calls

LEMMA SameClient ==
  ASSUME WireInv, UNCHANGED clientVars
  PROVE  ClientInv' /\ Sent' = Sent
<1>1. ClientInv'
  BY InvStep DEF WireInv
<1> QED
  BY <1>1 DEF clientVars, Sent

LEMMA WireArrive == WireInv /\ Arrive => WireInv'
<1> SUFFICES ASSUME WireInv, Arrive PROVE WireInv'
  OBVIOUS
<1>1. PICK i \in 1 .. Len(air) :
        /\ air' = RemoveAt(air, i)
        /\ sockq' = IF Len(sockq) < SOCKET_BUFFER THEN Append(sockq, air[i]) ELSE sockq
        /\ UNCHANGED << clientVars, got, conditions >>
  BY DEF Arrive
<1>2. ClientInv' /\ Sent' = Sent
  BY <1>1, SameClient
<1>3. air \in Seq(Sent) /\ sockq \in Seq(Sent) /\ Len(sockq) <= SOCKET_BUFFER /\ SOCKET_BUFFER \in Nat
  BY TransferAssumption DEF WireInv, TransferAssumption
<1>4. air' \in Seq(Sent) /\ air[i] \in Sent
  BY <1>1, <1>3, Removing
<1>5. sockq' \in Seq(Sent) /\ Len(sockq') <= SOCKET_BUFFER
  BY <1>1, <1>3, <1>4
<1> QED
  BY <1>1, <1>2, <1>4, <1>5, Zenon DEF WireInv, Calls

LEMMA WireReceives ==
  ASSUME WireInv, ServerReceives
  PROVE  /\ WireInv'
         /\ Head(sockq) \in Sent
         /\ got' = Append(got, << Head(sockq) >>)
<1>1. /\ sockq # << >> /\ sockq' = Tail(sockq)
      /\ got' = Append(got, << Head(sockq) >>)
      /\ UNCHANGED << clientVars, conditions, air >>
  BY DEF ServerReceives, GetPacket
<1>2. ClientInv' /\ Sent' = Sent
  BY <1>1, SameClient
<1>3. sockq \in Seq(Sent) /\ Len(sockq) <= SOCKET_BUFFER /\ SOCKET_BUFFER \in Nat
      /\ got \in Seq(Calls)
  BY TransferAssumption DEF WireInv, TransferAssumption, Calls
<1>4. Head(sockq) \in Sent /\ sockq' \in Seq(Sent) /\ Len(sockq') <= SOCKET_BUFFER
  BY <1>1, <1>3
<1>5. << Head(sockq) >> \in Calls
  BY <1>4, Zenon DEF Calls
<1>6. got' \in Seq(Calls)
  BY <1>1, <1>3, <1>5
<1> QED
  BY <1>1, <1>2, <1>3, <1>4, <1>6, Zenon DEF WireInv, Calls

LEMMA WireFails ==
  ASSUME WireInv, ServerFails
  PROVE  WireInv' /\ got' = Append(got, << >>)
<1>1. /\ UNCHANGED << clientVars, conditions, air, sockq >>
      /\ got' = Append(got, << >>)
  BY DEF ServerFails, GetPacketFails
<1>2. ClientInv' /\ Sent' = Sent
  BY <1>1, SameClient
<1>3. got \in Seq(Calls) /\ << >> \in Calls
  BY Zenon DEF WireInv, Calls
<1>4. got' \in Seq(Calls)
  BY <1>1, <1>3
<1> QED
  BY <1>1, <1>2, <1>4, Zenon DEF WireInv, Calls

-----------------------------------------------------------------------------
(* One turn of the receive loop.                                           *)

\* What is known of a datagram: its header decodes to its size, it has the done
\* bit if it is the last one, and the last one ends where the file does.
LEMMA Known ==
  ASSUME ClientInv, NEW d \in Sent
  PROVE  /\ d.header \in Headers /\ d.from \in Nat /\ d.size \in 1 .. blocksize
         /\ LengthOf(d.header) = d.size
         /\ IsDone(d.header) /\ bytes_read >= blocksize => End(d) = bytes_read
<1>1. PICK k \in 1 .. Len(sent) : d = sent[k]
  BY DEF Sent
<1>2. HeaderTellsTruth /\ SentFileOnce
  BY TellsTruth, SendsOnce
<1>3. d.header \in Headers /\ d.from \in Nat /\ d.size \in 1 .. MAX_BLOCKSIZE
  <2> DEFINE T == [ header : [ low : Byte, high : Byte ], from : Nat, size : 1 .. MAX_BLOCKSIZE ]
  <2>1. sent \in Seq(T)
    BY Zenon DEF ClientInv, ClientTypeOK
  <2>2. d \in T
    <3> HIDE DEF T
    <3> QED
      BY <1>1, <2>1
  <2> QED
    BY <2>2, Zenon DEF Headers
<1>4. d.size <= blocksize /\ blocksize \in Nat
  BY <1>1, SizeFits, Division DEF ClientInv
<1>5. d.size \in 1 .. blocksize
  BY <1>3, <1>4, ClientAssumption DEF ClientAssumption
<1>6. LengthOf(d.header) = d.size /\ (IsDone(d.header) => stage = "sent" /\ k = Len(sent))
  BY <1>1, <1>2, Zenon DEF HeaderTellsTruth
<1> QED
  BY <1>1, <1>2, <1>3, <1>5, <1>6, Zenon DEF SentFileOnce

\* Header bytes decode to a length.
LEMMA Lengths ==
  ASSUME NEW h \in Headers
  PROVE  LengthOf(h) \in Nat
<1>1. ByteSize \in Nat /\ DONE_BIT \in Nat \ {0} /\ h.low \in Nat /\ h.high \in Nat
  BY ByteSizeAssumption DEF ByteSizeAssumption, DONE_BIT, Headers, Byte
<1>2. h.high % DONE_BIT \in Nat
  BY <1>1, DivMod
<1>3. ASSUME NEW x \in Nat, NEW y \in Nat PROVE x * y \in Nat
  BY <1>3
<1> QED
  BY <1>1, <1>2, <1>3 DEF LengthOf

\* A slot that was never written to has any header, the others have theirs.
LEMMA HeadersFound ==
  ASSUME NEW slot \in Slots
  PROVE  HeadersIn(slot) \subseteq Headers
<1>1. CASE slot.header.low = Garbage
  BY <1>1, Zenon DEF HeadersIn, Headers
<1>2. CASE slot.header.low # Garbage
  <2>1. Unwritten.header.low = Garbage
    BY DEF Unwritten
  <2>2. slot.header \in {Unwritten.header} \cup Headers
    BY DEF Slots
  <2>3. slot.header \in Headers
    BY <1>2, <2>1, <2>2, Zenon
  <2> QED
    BY <1>2, <2>3, Zenon DEF HeadersIn
<1> QED
  BY <1>1, <1>2

LEMMA NotGarbage ==
  ASSUME NEW h \in Headers
  PROVE  h.low # Garbage
<1>1. h.low \in Nat
  BY ByteSizeAssumption DEF ByteSizeAssumption, Headers, Byte
<1> QED
  BY <1>1 DEF Garbage

\* What recvfrom leaves in a slot.
LEMMA Receiving ==
  ASSUME ClientInv, NEW d \in Sent, NEW slot \in Slots
  PROVE  /\ Received(d, slot) \in Slots
         /\ HeadersIn(Received(d, slot)) = {d.header}
         /\ \A j \in 1 .. NUM_ELEMENTS :
              Received(d, slot).data[j] =
                IF j <= d.size /\ j <= server_blocksize THEN d.from + j - 1 ELSE slot.data[j]
<1>1. d.header \in Headers /\ d.from \in Nat
  BY Known
<1>2. slot.data \in [ 1 .. NUM_ELEMENTS -> Content ]
  BY DEF Slots
<1>3. NUM_ELEMENTS \in Nat
  BY ServerAssumption DEF ServerAssumption
<1> DEFINE byte(j) == IF j <= d.size /\ j <= server_blocksize THEN d.from + j - 1 ELSE slot.data[j]
           data == [ j \in 1 .. NUM_ELEMENTS |-> byte(j) ]
<1>4. Received(d, slot) = [ header |-> d.header, data |-> data ]
  BY Zenon DEF Received, Overwrite
<1>5. \A j \in 1 .. NUM_ELEMENTS : data[j] = byte(j)
  OBVIOUS
<1>6. ASSUME NEW j \in 1 .. NUM_ELEMENTS PROVE byte(j) \in Content
  <2>1. d.from + j - 1 \in Content
    BY <1>1, <1>3 DEF Content
  <2>2. slot.data[j] \in Content
    BY <1>2
  <2> QED
    BY <2>1, <2>2, Zenon
<1> HIDE DEF byte
<1>7. data \in [ 1 .. NUM_ELEMENTS -> Content ]
  BY <1>6, Zenon
<1> HIDE DEF data
<1>8. Received(d, slot).header = d.header /\ Received(d, slot).data = data
  BY <1>4
<1>9. Received(d, slot) \in Slots
  BY <1>1, <1>4, <1>7 DEF Slots
<1>10. HeadersIn(Received(d, slot)) = {d.header}
  BY <1>1, <1>8, NotGarbage, Zenon DEF HeadersIn
<1> QED
  BY <1>5, <1>8, <1>9, <1>10, Zenon DEF byte

\* An iteration with these contents of the slot in it.
Turn(slot, h) ==
  /\ input' = [ input EXCEPT ![Slot] = [ slot EXCEPT !.header = h ] ]
  /\ done' = IsDone(h)
  /\ fed' = Append(fed, Payload(slot, LengthOf(h)))
  /\ writer' = Slot + 1

LEMMA Turning ==
  ASSUME LoopInv, NEW slot \in Slots, Decode(slot)
  PROVE  \E h \in Headers : h \in HeadersIn(slot) /\ Turn(slot, h)
BY HeadersFound DEF Decode, Finish, Turn

\* The bytes handed to encode().
LEMMA Payloads ==
  ASSUME NEW slot \in Slots, NEW length \in Nat
  PROVE  /\ Payload(slot, length) \in Seq(Content)
         /\ Len(Payload(slot, length)) = length
         /\ \A j \in 1 .. length :
              Payload(slot, length)[j] = IF j <= NUM_ELEMENTS THEN slot.data[j] ELSE Garbage
<1>1. slot.data \in [ 1 .. NUM_ELEMENTS -> Content ] /\ NUM_ELEMENTS \in Nat
  BY ServerAssumption DEF Slots, ServerAssumption
<1>2. ASSUME NEW j \in 1 .. length
      PROVE  (IF j <= NUM_ELEMENTS THEN slot.data[j] ELSE Garbage) \in Content
  <2>1. j <= NUM_ELEMENTS => j \in 1 .. NUM_ELEMENTS
    BY <1>1
  <2> QED
    BY <1>1, <2>1, Zenon DEF Content
<1>3. Payload(slot, length) \in [ 1 .. length -> Content ]
  BY <1>2, Zenon DEF Payload
<1>4. \A j \in 1 .. length :
        Payload(slot, length)[j] = IF j <= NUM_ELEMENTS THEN slot.data[j] ELSE Garbage
  BY Zenon DEF Payload
<1> QED
  BY <1>3, <1>4

\* The loop's own state.
LEMMA LoopTurns ==
  ASSUME LoopInv, NEW slot \in Slots, NEW h \in Headers, Turn(slot, h),
         NEW S, got \in Seq(S), NEW x \in S, got' = Append(got, x), UNCHANGED server_blocksize
  PROVE  /\ LoopInv'
         /\ Slot \in 0 .. NUM_PACKETS - 1
         /\ Len(got') = Len(got) + 1
<1>1. Len(got) \in Nat /\ Len(got') = Len(got) + 1
  OBVIOUS
<1>2. Slot = SlotOf(Len(got) + 1) /\ Slot \in 0 .. NUM_PACKETS - 1
  BY <1>1, NextSlot DEF LoopInv
<1>3. writer' = Slot + 1 /\ writer' \in 0 .. NUM_PACKETS
  BY <1>2, Ring DEF Turn
<1>4. Slot' = SlotOf(Len(got') + 1)
  <2>1. Slot' = IF Slot + 1 = NUM_PACKETS THEN 0 ELSE Slot + 1
    BY <1>3, Zenon DEF Slot
  <2>2. SlotOf((Len(got) + 1) + 1) =
          IF SlotOf(Len(got) + 1) = NUM_PACKETS - 1 THEN 0 ELSE SlotOf(Len(got) + 1) + 1
    BY <1>1, NextSlot
  <2>3. Slot = NUM_PACKETS - 1 <=> Slot + 1 = NUM_PACKETS
    BY <1>2, Ring
  <2> QED
    BY <1>1, <1>2, <2>1, <2>2, <2>3, Zenon
<1>5. input' \in [ 0 .. NUM_PACKETS - 1 -> Slots ]
  <2>1. [ slot EXCEPT !.header = h ] \in Slots
    BY DEF Slots
  <2> QED
    BY <1>2, <2>1, Zenon DEF Turn, LoopInv
<1>6. fed' \in Seq(Seq(Content)) /\ Len(fed') = Len(got')
  <2>1. Payload(slot, LengthOf(h)) \in Seq(Content)
    BY Payloads, Lengths
  <2>2. fed' = Append(fed, Payload(slot, LengthOf(h))) /\ fed \in Seq(Seq(Content)) /\ Len(fed) = Len(got)
    BY Zenon DEF Turn, LoopInv
  <2> QED
    BY <1>1, <2>1, <2>2
<1>7. done' \in BOOLEAN
  BY DEF Turn, IsDone
<1>8. server_blocksize' \in ServerBlockSizes
  BY DEF LoopInv
<1> QED
  BY <1>1, <1>2, <1>3, <1>4, <1>5, <1>6, <1>7, <1>8, Zenon DEF LoopInv

-----------------------------------------------------------------------------
(* The end of the loop.                                                    *)

LEMMA Longer ==
  ASSUME NEW S, NEW s \in Seq(S), NEW x \in S
  PROVE  /\ Len(s) \in Nat /\ Len(Append(s, x)) = Len(s) + 1
         /\ \A k \in 1 .. Len(s) : Append(s, x)[k] = s[k]
         /\ Append(s, x)[Len(s) + 1] = x
OBVIOUS

\* After a call that did not find the loop at its end, the packets before it had
\* no done bit.
LEMMA NoneBefore ==
  ASSUME got \in Seq(Calls), ~done, StopsAtFirstDone, NEW x \in Calls, got' = Append(got, x),
         \A i \in 1 .. Len(x) : IsDone(x[i].header) <=> done'
  PROVE  \A k \in 1 .. Len(got') : \A i \in 1 .. Len(got'[k]) :
           IsDone(got'[k][i].header) <=> (done' /\ k = Len(got'))
<1>1. /\ Len(got) \in Nat /\ Len(got') = Len(got) + 1
      /\ \A k \in 1 .. Len(got) : got'[k] = got[k]
      /\ got'[Len(got) + 1] = x
  BY Longer
<1> SUFFICES ASSUME NEW k \in 1 .. Len(got'), NEW i \in 1 .. Len(got'[k])
             PROVE  IsDone(got'[k][i].header) <=> (done' /\ k = Len(got'))
  OBVIOUS
<1>2. k \in 1 .. Len(got) \/ k = Len(got) + 1
  BY <1>1
<1>3. CASE k \in 1 .. Len(got)
  <2>1. k # Len(got')
    BY <1>1, <1>3
  <2> QED
    BY <1>1, <1>3, <2>1, Zenon DEF StopsAtFirstDone
<1>4. CASE k = Len(got) + 1
  BY <1>1, <1>4, Zenon
<1> QED
  BY <1>2, <1>3, <1>4

LEMMA StopsReceives ==
  ASSUME WireInv, LoopInv, StopsAtFirstDone, NEW d \in Sent, ~done,
         got' = Append(got, << d >>), Turn(Received(d, input[Slot]), d.header),
         UNCHANGED << server_blocksize, bytes_read, blocksize >>
  PROVE  StopsAtFirstDone'
<1> DEFINE slot == Received(d, input[Slot])
<1>1. got \in Seq(Calls) /\ << d >> \in Calls /\ ClientInv
  BY Zenon DEF WireInv, Calls
<1>2. done' = IsDone(d.header)
  BY DEF Turn
<1>3. Len(<< d >>) = 1 /\ << d >>[1] = d /\ \A i \in 1 .. 1 : i = 1
  OBVIOUS
<1>4. \A k \in 1 .. Len(got') : \A i \in 1 .. Len(got'[k]) :
        IsDone(got'[k][i].header) <=> (done' /\ k = Len(got'))
  <2>1. \A i \in 1 .. Len(<< d >>) : IsDone(<< d >>[i].header) <=> done'
    BY <1>2, <1>3, Zenon
  <2> QED
    BY <1>1, <2>1, NoneBefore
<1>5. ASSUME done', bytes_read >= blocksize, server_blocksize >= blocksize
      PROVE  Last(Last(fed')) = bytes_read - 1
  <2>1. /\ d.size \in 1 .. blocksize /\ LengthOf(d.header) = d.size /\ d.from \in Nat
        /\ End(d) = bytes_read
    BY <1>1, <1>2, <1>5, Known, Zenon
  <2>2. /\ d.size \in Nat /\ d.size \in 1 .. d.size /\ d.size <= d.size
        /\ d.size <= NUM_ELEMENTS /\ d.size <= server_blocksize /\ d.size \in 1 .. NUM_ELEMENTS
    <3>1. server_blocksize \in 0 .. NUM_ELEMENTS /\ NUM_ELEMENTS \in Nat
      BY ServerAssumption DEF ServerAssumption, LoopInv
    <3>2. blocksize \in Nat
      BY <1>1, Division DEF ClientInv
    <3> QED
      BY <1>5, <2>1, <3>1, <3>2
  <2>3. Slot \in 0 .. NUM_PACKETS - 1
    <3>1. Len(got) + 1 \in Nat \ {0}
      BY <1>1
    <3> QED
      BY <3>1, NextSlot DEF LoopInv
  <2>4. input[Slot] \in Slots
    BY <2>3, Zenon DEF LoopInv
  <2>5. slot \in Slots /\ slot.data[d.size] = d.from + d.size - 1
    BY <1>1, <2>2, <2>4, Receiving, Zenon
  <2> HIDE DEF slot
  <2>6. Payload(slot, d.size)[d.size] = d.from + d.size - 1 /\ Len(Payload(slot, d.size)) = d.size
        /\ Payload(slot, d.size) \in Seq(Content)
    BY <2>2, <2>5, Payloads, Zenon
  <2>7. fed' = Append(fed, Payload(slot, d.size)) /\ fed \in Seq(Seq(Content))
    BY <2>1, Zenon DEF Turn, LoopInv, slot
  <2>8. Last(fed') = Payload(slot, d.size)
    BY <2>6, <2>7, Longer DEF Last
  <2>9. Last(Last(fed')) = d.from + d.size - 1
    BY <2>6, <2>8, Zenon DEF Last
  <2> QED
    BY <2>1, <2>9 DEF End
<1> QED
  BY <1>4, <1>5, Zenon DEF StopsAtFirstDone

LEMMA StopsFails ==
  ASSUME WireInv, StopsAtFirstDone, ~done, got' = Append(got, << >>)
  PROVE  StopsAtFirstDone'
<1>1. got \in Seq(Calls) /\ << >> \in Calls
  BY Zenon DEF WireInv, Calls
<1>2. \A i \in 1 .. Len(<< >>) : IsDone(<< >>[i].header) <=> done'
  <2>1. ASSUME NEW i \in 1 .. Len(<< >>) PROVE FALSE
    OBVIOUS
  <2> QED
    BY <2>1
<1>3. \A k \in 1 .. Len(got') : \A i \in 1 .. Len(got'[k]) :
        IsDone(got'[k][i].header) <=> (done' /\ k = Len(got'))
  BY <1>1, <1>2, NoneBefore
<1>4. Failures' # {}
  <2>1. Len(got) + 1 \in 1 .. Len(got') /\ got'[Len(got) + 1] = << >>
    BY <1>1, Longer
  <2> QED
    BY <2>1, Zenon DEF Failures
<1> QED
  BY <1>3, <1>4, Zenon DEF StopsAtFirstDone

-----------------------------------------------------------------------------
(* The bytes in the slots.                                                 *)

\* The contents of the slot after a call, with what it received put over them.
Filled(slot, x) ==
  \A j \in 1 .. NUM_ELEMENTS :
    slot.data[j] = IF x # << >> /\ j <= x[1].size /\ j <= server_blocksize
                     THEN x[1].from + j - 1
                     ELSE input[Slot].data[j]

\* Earlier receives are what they were; the new one wrote what it received.
LEMMA WroteThen ==
  ASSUME got \in Seq(Calls), NEW x \in Calls, got' = Append(got, x), UNCHANGED server_blocksize
  PROVE  /\ \A m \in 1 .. Len(got), j \in Nat : Wrote(m, j)' <=> Wrote(m, j)
         /\ \A m \in {Len(got) + 1}, j \in Nat :
              Wrote(m, j)' <=> x # << >> /\ j <= x[1].size /\ j <= server_blocksize
<1>1. /\ \A m \in 1 .. Len(got) : got'[m] = got[m]
      /\ got'[Len(got) + 1] = x
  BY Longer
<1>2. ASSUME NEW m \in 1 .. Len(got), NEW j \in Nat PROVE Wrote(m, j)' <=> Wrote(m, j)
  BY <1>1, Zenon DEF Wrote
<1>3. ASSUME NEW m \in {Len(got) + 1}, NEW j \in Nat
      PROVE  Wrote(m, j)' <=> x # << >> /\ j <= x[1].size /\ j <= server_blocksize
  <2>1. got'[m] = x
    BY <1>1
  <2> QED
    BY <2>1, Zenon DEF Wrote
<1> QED
  BY <1>2, <1>3

\* What a set of earlier receives put somewhere is still there.
LEMMA StillHolds ==
  ASSUME NEW C, NEW g \in Seq(C), NEW x \in C,
         NEW S \in SUBSET (1 .. Len(g)), NEW byte, NEW j, Holds(g, byte, S, j)
  PROVE  Holds(Append(g, x), byte, S, j)
<1>1. \A m \in S : Append(g, x)[m] = g[m]
  BY Longer
<1> QED
  BY <1>1, Zenon DEF Holds

LEMMA StoredThen ==
  ASSUME got \in Seq(Calls), NEW x \in Calls, got' = Append(got, x), UNCHANGED server_blocksize,
         NEW w, NEW j \in 1 .. NUM_ELEMENTS
  PROVE  Stores(w, j)' =
           IF SlotOf(Len(got) + 1) = w /\ x # << >> /\ j <= x[1].size /\ j <= server_blocksize
             THEN Stores(w, j) \cup {Len(got) + 1}
             ELSE Stores(w, j)
<1>1. Len(got) \in Nat /\ Len(got') = Len(got) + 1
  BY Longer
<1>2. j \in Nat
  BY ServerAssumption DEF ServerAssumption
<1>3. 1 .. Len(got') = (1 .. Len(got)) \cup {Len(got) + 1}
  BY <1>1
<1>4. Stores(w, j)' = { m \in (1 .. Len(got)) \cup {Len(got) + 1} : SlotOf(m) = w /\ Wrote(m, j)' }
  BY <1>3, Zenon DEF Stores, SlotOf
<1>5. \A m \in 1 .. Len(got) : Wrote(m, j)' <=> Wrote(m, j)
  BY <1>2, WroteThen, Zenon
<1>6. \A m \in {Len(got) + 1} : Wrote(m, j)' <=> x # << >> /\ j <= x[1].size /\ j <= server_blocksize
  BY <1>2, WroteThen, Zenon
<1>7. CASE SlotOf(Len(got) + 1) = w /\ x # << >> /\ j <= x[1].size /\ j <= server_blocksize
  <2>1. \A m : m \in Stores(w, j)' <=> m \in Stores(w, j) \cup {Len(got) + 1}
    BY <1>4, <1>5, <1>6, <1>7, Zenon DEF Stores
  <2> QED
    BY <1>7, <2>1, Zenon
<1>8. CASE ~(SlotOf(Len(got) + 1) = w /\ x # << >> /\ j <= x[1].size /\ j <= server_blocksize)
  <2>1. \A m : m \in Stores(w, j)' <=> m \in Stores(w, j)
    BY <1>4, <1>5, <1>6, <1>8, Zenon DEF Stores
  <2>2. Stores(w, j)' = Stores(w, j)
    BY <2>1, Zenon
  <2> QED
    BY <1>8, <2>2, Zenon
<1> QED
  BY <1>7, <1>8

LEMMA SlotThen ==
  ASSUME WireInv, LoopInv, MemoryInv, NEW slot \in Slots, NEW h, Turn(slot, h),
         NEW x \in Calls, got' = Append(got, x), Filled(slot, x), UNCHANGED server_blocksize,
         NEW w \in 0 .. NUM_PACKETS - 1, NEW j \in 1 .. NUM_ELEMENTS
  PROVE  Holds(got, input[w].data[j], Stores(w, j), j)'
<1>1. got \in Seq(Calls) /\ Len(got) \in Nat
  BY DEF WireInv
<1>2. Slot = SlotOf(Len(got) + 1) /\ input \in [ 0 .. NUM_PACKETS - 1 -> Slots ]
  BY Zenon DEF LoopInv
<1>3. Holds(got, input[w].data[j], Stores(w, j), j) /\ Stores(w, j) \in SUBSET (1 .. Len(got))
  BY Zenon DEF MemoryInv, Stores
<1>5. CASE w # Slot
  <2>1. input'[w] = input[w]
    BY <1>2, <1>5, Zenon DEF Turn
  <2>2. Stores(w, j)' = Stores(w, j)
    BY <1>1, <1>2, <1>5, StoredThen, Zenon
  <2> QED
    <3>1. Holds(got', input[w].data[j], Stores(w, j), j)
      BY <1>1, <1>3, StillHolds, Zenon
    <3> QED
      BY <2>1, <2>2, <3>1, Zenon
<1>6. CASE w = Slot
  <2>1. input'[w].data = slot.data
    <3>1. input'[w] = [ slot EXCEPT !.header = h ]
      BY <1>2, <1>6, Zenon DEF Turn
    <3> QED
      BY <3>1 DEF Slots
  <2>2. CASE x # << >> /\ j <= x[1].size /\ j <= server_blocksize
    <3>1. slot.data[j] = x[1].from + j - 1
      BY <2>2, Zenon DEF Filled
    <3>2. Stores(w, j)' = Stores(w, j) \cup {Len(got) + 1}
      BY <1>1, <1>2, <1>6, <2>2, StoredThen, Zenon
    <3>3. got'[Len(got) + 1] = x
      BY <1>1, Longer
    <3>4. \A m \in Stores(w, j) \cup {Len(got) + 1} : m <= Len(got) + 1
      BY <1>1, <1>3
    <3> QED
      BY <2>1, <3>1, <3>2, <3>3, <3>4, Zenon DEF Holds
  <2>3. CASE ~(x # << >> /\ j <= x[1].size /\ j <= server_blocksize)
    <3>1. slot.data[j] = input[w].data[j]
      BY <1>6, <2>3, Zenon DEF Filled
    <3>2. Stores(w, j)' = Stores(w, j)
      BY <1>1, <2>3, StoredThen, Zenon
    <3>3. Holds(got', input[w].data[j], Stores(w, j), j)
      BY <1>1, <1>3, StillHolds, Zenon
    <3> QED
      BY <2>1, <3>1, <3>2, <3>3, Zenon
  <2> QED
    BY <2>2, <2>3, Zenon
<1> QED
  BY <1>5, <1>6

\* What encode() is given.
LEMMA FedThen ==
  ASSUME WireInv, LoopInv, MemoryInv, NEW slot \in Slots, NEW h \in Headers, Turn(slot, h),
         NEW x \in Calls, got' = Append(got, x), Filled(slot, x), UNCHANGED server_blocksize
  PROVE  (\A k \in 1 .. Len(fed) : \A j \in 1 .. Len(fed[k]) : Holds(got, fed[k][j], Writers(k, j), j))'
<1> DEFINE new == Len(got) + 1
           payload == Payload(slot, LengthOf(h))
<1>1. got \in Seq(Calls) /\ Len(got) \in Nat /\ Len(fed) = Len(got) /\ fed \in Seq(Seq(Content))
  BY DEF WireInv, LoopInv
<1>2. LengthOf(h) \in Nat
  BY Lengths
<1>3. /\ payload \in Seq(Content) /\ Len(payload) = LengthOf(h)
      /\ \A j \in 1 .. LengthOf(h) : payload[j] = IF j <= NUM_ELEMENTS THEN slot.data[j] ELSE Garbage
  BY <1>2, Payloads
<1>4. fed' = Append(fed, payload)
  BY Zenon DEF Turn
<1> HIDE DEF payload
<1>5. /\ Len(fed') = new /\ fed'[new] = payload
      /\ \A k \in 1 .. Len(fed) : fed'[k] = fed[k]
  BY <1>1, <1>3, <1>4, Longer
<1>6. ASSUME NEW k \in 1 .. new, NEW j \in 1 .. Len(fed'[k])
      PROVE  Holds(got, fed[k][j], Writers(k, j), j)'
  <2>0. k \in Nat /\ j \in Nat
    BY <1>1, <1>3, <1>5, <1>2
  <2>1. Writers(k, j)' = { m \in 1 .. k : SameSlot(m, k) /\ j <= NUM_ELEMENTS /\ Wrote(m, j)' }
    BY Zenon DEF Writers, SameSlot
  <2>2. CASE k \in 1 .. Len(got)
    <3>1. \A m \in 1 .. k : m \in 1 .. Len(got)
      BY <1>1, <2>2
    <3>2. Writers(k, j)' = Writers(k, j)
      BY <1>1, <2>0, <2>1, <3>1, WroteThen, Zenon DEF Writers
    <3>3. fed'[k] = fed[k]
      BY <1>1, <1>5, <2>2
    <3>4. Holds(got, fed[k][j], Writers(k, j), j)
      BY <1>1, <2>2, <3>3, Zenon DEF MemoryInv
    <3>5. Writers(k, j) \in SUBSET (1 .. Len(got))
      BY <3>1, Zenon DEF Writers
    <3>6. Holds(got', fed[k][j], Writers(k, j), j)
      BY <1>1, <3>4, <3>5, StillHolds, Zenon
    <3> QED
      BY <3>2, <3>3, <3>6, Zenon
  <2>3. CASE k = new
    <3>1. fed'[k][j] = IF j <= NUM_ELEMENTS THEN slot.data[j] ELSE Garbage
      BY <1>3, <1>5, <2>3, Zenon
    <3>2. CASE j <= NUM_ELEMENTS
      <4>1. j \in 1 .. NUM_ELEMENTS
        BY <2>0, <3>2, ServerAssumption DEF ServerAssumption
      <4>2. PICK w \in 0 .. NUM_PACKETS - 1 : w = Slot /\ w = SlotOf(new)
        BY <1>1, NextSlot DEF LoopInv
      <4>3. Holds(got', input'[w].data[j], Stores(w, j)', j)
        BY <4>1, SlotThen, Zenon
      <4>4. input'[w].data[j] = slot.data[j]
        <5>1. input'[w] = [ slot EXCEPT !.header = h ]
          BY <4>2, Zenon DEF Turn, LoopInv
        <5> QED
          BY <5>1 DEF Slots
      <4>5. \A m \in 1 .. k : SameSlot(m, k) <=> SlotOf(m) = w
        BY <2>0, <2>3, <4>2, SlotsMeet, Zenon
      <4>6. Writers(k, j)' = Stores(w, j)'
        <5>1. Len(got') = k
          BY <1>1, <2>3, Longer
        <5>2. Stores(w, j)' = { m \in 1 .. k : SlotOf(m) = w /\ Wrote(m, j)' }
          BY <5>1, Zenon DEF Stores, SlotOf
        <5>3. \A m : m \in Writers(k, j)' <=> m \in Stores(w, j)'
          BY <2>1, <3>2, <4>5, <5>2, Zenon
        <5> QED
          BY <5>3, Zenon
      <4> QED
        BY <3>1, <3>2, <4>3, <4>4, <4>6, Zenon
    <3>3. CASE ~(j <= NUM_ELEMENTS)
      BY <2>1, <3>1, <3>3, Zenon DEF Holds
    <3> QED
      BY <3>2, <3>3
  <2>4. k \in 1 .. Len(got) \/ k = new
    BY <1>1
  <2> QED
    BY <2>2, <2>3, <2>4
<1> QED
  BY <1>1, <1>5, <1>6

-----------------------------------------------------------------------------
(* The invariant is inductive.                                             *)

LEMMA TransferInvInit == TransferInit => TransferInv
<1> SUFFICES ASSUME TransferInit PROVE TransferInv
  OBVIOUS
<1>1. /\ ClientInv
      /\ conditions \in Conditions
      /\ air = << >> /\ sockq = << >> /\ got = << >> /\ fed = << >>
      /\ done = FALSE
      /\ server_blocksize \in ServerBlockSizes /\ writer = pipe_depth
      /\ input = [ w \in 0 .. NUM_PACKETS - 1 |-> Unwritten ]
  BY InvInit, Zenon DEF TransferInit, ServerInit
<1>2. Len(got) = 0 /\ Len(fed) = 0
  BY <1>1
<1>3. WireInv
  <2>1. Len(sockq) <= SOCKET_BUFFER
    BY <1>1, TransferAssumption DEF TransferAssumption
  <2>2. \A S : << >> \in Seq(S)
    OBVIOUS
  <2> QED
    BY <1>1, <2>1, <2>2, Zenon DEF WireInv
<1>4. LoopInv
  <2>1. Unwritten \in Slots
    BY DEF Unwritten, Slots, Content
  <2>2. Slot = SlotOf(Len(got) + 1) /\ writer \in 0 .. NUM_PACKETS
    <3>1. Slot = pipe_depth /\ writer \in 0 .. NUM_PACKETS /\ pipe_depth + 1 - 1 = pipe_depth
      BY <1>1, Ring DEF Slot
    <3>2. pipe_depth % NUM_PACKETS = pipe_depth
      BY Ring, ModSmall
    <3>3. Len(got) + 1 = 1
      BY <1>2
    <3> QED
      BY <3>1, <3>2, <3>3, Zenon DEF SlotOf
  <2>3. fed \in Seq(Seq(Content)) /\ Len(fed) = Len(got)
    BY <1>1, <1>2
  <2> QED
    BY <1>1, <2>1, <2>2, <2>3, Zenon DEF LoopInv
<1>5. \A x : x \notin 1 .. Len(got) /\ x \notin 1 .. Len(fed)
  BY <1>2
<1>6. StopsAtFirstDone
  BY <1>1, <1>5, Zenon DEF StopsAtFirstDone
<1>7. MemoryInv
  <2>1. ASSUME NEW w \in 0 .. NUM_PACKETS - 1, NEW j \in 1 .. NUM_ELEMENTS
        PROVE  Holds(got, input[w].data[j], Stores(w, j), j)
    <3>1. input[w].data[j] = Garbage
      BY <1>1 DEF Unwritten
    <3>2. Stores(w, j) = {}
      BY <1>5, Zenon DEF Stores
    <3> QED
      BY <3>1, <3>2, Zenon DEF Holds
  <2> QED
    BY <1>5, <2>1, Zenon DEF MemoryInv
<1> QED
  BY <1>3, <1>4, <1>6, <1>7, Zenon DEF TransferInv

\* What the client and the network leave alone.
LEMMA Elsewhere ==
  ASSUME LoopInv, StopsAtFirstDone, MemoryInv,
         UNCHANGED << server_blocksize, input, writer, done, got, fed, bytes_read, blocksize >>
  PROVE  LoopInv' /\ StopsAtFirstDone' /\ MemoryInv'
<1>1. LoopInv'
  BY Zenon DEF LoopInv, Slot, SlotOf
<1>2. StopsAtFirstDone'
  BY Zenon DEF StopsAtFirstDone, Failures
<1>3. MemoryInv'
  BY Zenon DEF MemoryInv, Stores, Writers, Wrote, SlotOf, SameSlot
<1> QED
  BY <1>1, <1>2, <1>3

LEMMA Sending == TransferInv /\ ClientSends => TransferInv'
<1> SUFFICES ASSUME TransferInv, ClientSends PROVE TransferInv'
  OBVIOUS
<1>1. WireInv'
  BY WireSends DEF TransferInv
<1>2. UNCHANGED << server_blocksize, input, writer, done, got, fed, bytes_read, blocksize >>
  BY Sends DEF TransferInv, WireInv, ClientSends, serverVars
<1> QED
  BY <1>1, <1>2, Elsewhere, Zenon DEF TransferInv

LEMMA Arriving == TransferInv /\ Arrive => TransferInv'
<1> SUFFICES ASSUME TransferInv, Arrive PROVE TransferInv'
  OBVIOUS
<1>1. WireInv'
  BY WireArrive DEF TransferInv
<1>2. UNCHANGED << server_blocksize, input, writer, done, got, fed, bytes_read, blocksize >>
  BY DEF Arrive, clientVars
<1> QED
  BY <1>1, <1>2, Elsewhere, Zenon DEF TransferInv

\* A call of get_packet, with these contents of the slot behind it.
LEMMA Calling ==
  ASSUME TransferInv, NEW slot \in Slots, NEW h \in Headers, Turn(slot, h),
         NEW x \in Calls, got' = Append(got, x), Filled(slot, x), UNCHANGED server_blocksize
  PROVE  LoopInv' /\ MemoryInv'
<1>1. WireInv /\ LoopInv /\ MemoryInv /\ got \in Seq(Calls)
  BY DEF TransferInv, WireInv
<1>2. LoopInv'
  BY <1>1, LoopTurns
<1>3. \A w \in 0 .. NUM_PACKETS - 1 : \A j \in 1 .. NUM_ELEMENTS :
        Holds(got', input'[w].data[j], Stores(w, j)', j)
  BY <1>1, SlotThen, Zenon
<1>4. (\A k \in 1 .. Len(fed) : \A j \in 1 .. Len(fed[k]) : Holds(got, fed[k][j], Writers(k, j), j))'
  BY <1>1, FedThen
<1> QED
  BY <1>2, <1>3, <1>4, Zenon DEF MemoryInv

LEMMA SlotNow ==
  ASSUME LoopInv, Len(got) \in Nat
  PROVE  input[Slot] \in Slots
<1>1. Len(got) + 1 \in Nat \ {0}
  OBVIOUS
<1>2. Slot \in 0 .. NUM_PACKETS - 1
  BY <1>1, NextSlot DEF LoopInv
<1> QED
  BY <1>2, Zenon DEF LoopInv

LEMMA Receives == TransferInv /\ ServerReceives => TransferInv'
<1> SUFFICES ASSUME TransferInv, ServerReceives PROVE TransferInv'
  OBVIOUS
<1>1. WireInv /\ LoopInv /\ StopsAtFirstDone /\ ClientInv /\ Len(got) \in Nat
  BY DEF TransferInv, WireInv
<1>2. WireInv' /\ Head(sockq) \in Sent
  BY <1>1, WireReceives
<1>3. PICK d \in Sent : d = Head(sockq)
  BY <1>2
<1>4. /\ got' = Append(got, << d >>) /\ ~done
      /\ Decode(Received(d, input[Slot]))
      /\ UNCHANGED << server_blocksize, bytes_read, blocksize >>
  BY <1>3, Zenon DEF ServerReceives, GetPacket, clientVars
<1>5. PICK slot \in Slots : slot = Received(d, input[Slot])
  BY <1>1, SlotNow, Receiving, Zenon
<1>6. /\ HeadersIn(slot) = {d.header}
      /\ \A j \in 1 .. NUM_ELEMENTS :
           slot.data[j] = IF j <= d.size /\ j <= server_blocksize THEN d.from + j - 1
                                                                  ELSE input[Slot].data[j]
  BY <1>1, <1>5, SlotNow, Receiving, Zenon
<1>7. Turn(slot, d.header) /\ d.header \in Headers
  BY <1>1, <1>4, <1>5, <1>6, Turning, Zenon
<1>8. << d >> # << >> /\ << d >>[1] = d
  OBVIOUS
<1>9. Filled(slot, << d >>)
  BY <1>6, <1>8, Zenon DEF Filled
<1>10. << d >> \in Calls
  BY Zenon DEF Calls
<1>11. LoopInv' /\ MemoryInv'
  BY <1>4, <1>7, <1>9, <1>10, Calling
<1>12. StopsAtFirstDone'
  BY <1>1, <1>4, <1>5, <1>7, StopsReceives
<1> QED
  BY <1>2, <1>11, <1>12, Zenon DEF TransferInv

LEMMA Failing == TransferInv /\ ServerFails => TransferInv'
<1> SUFFICES ASSUME TransferInv, ServerFails PROVE TransferInv'
  OBVIOUS
<1>1. WireInv /\ LoopInv /\ StopsAtFirstDone /\ Len(got) \in Nat
  BY DEF TransferInv, WireInv
<1>2. /\ WireInv'
      /\ got' = Append(got, << >>) /\ ~done
      /\ Decode(input[Slot])
      /\ UNCHANGED server_blocksize
  BY <1>1, WireFails DEF ServerFails, GetPacketFails
<1>3. PICK slot \in Slots : slot = input[Slot]
  BY <1>1, SlotNow
<1>4. PICK h \in Headers : Turn(slot, h)
  BY <1>1, <1>2, <1>3, Turning, Zenon
<1>5. Filled(slot, << >>)
  BY <1>3, Zenon DEF Filled
<1>6. << >> \in Calls
  BY Zenon DEF Calls
<1>7. LoopInv' /\ MemoryInv'
  BY <1>2, <1>4, <1>5, <1>6, Calling
<1>8. StopsAtFirstDone'
  BY <1>1, <1>2, StopsFails
<1> QED
  BY <1>2, <1>7, <1>8, Zenon DEF TransferInv

LEMMA TransferInvStep == TransferInv /\ [TransferNext]_transferVars => TransferInv'
<1> SUFFICES ASSUME TransferInv, [TransferNext]_transferVars PROVE TransferInv'
  OBVIOUS
<1>1. CASE ClientSends
  BY <1>1, Sending
<1>2. CASE Arrive
  BY <1>2, Arriving
<1>3. CASE ServerReceives
  BY <1>3, Receives
<1>4. CASE ServerFails
  BY <1>4, Failing
<1>5. CASE UNCHANGED transferVars
  <2>1. /\ UNCHANGED << server_blocksize, input, writer, done, got, fed, bytes_read, blocksize >>
        /\ UNCHANGED << sockq, air, conditions, clientVars >>
    BY <1>5 DEF transferVars, serverVars, clientVars
  <2>2. ClientInv' /\ Sent' = Sent
    BY <2>1, SameClient DEF TransferInv
  <2>3. WireInv'
    BY <2>1, <2>2, Zenon DEF TransferInv, WireInv, Calls
  <2> QED
    BY <2>1, <2>3, Elsewhere, Zenon DEF TransferInv
<1> QED
  BY <1>1, <1>2, <1>3, <1>4, <1>5 DEF TransferNext

-----------------------------------------------------------------------------

\* TransferInv holds in every reachable state, on any network.
THEOREM TransferInvariant == TransferSpec => []TransferInv
BY TransferInvInit, TransferInvStep, PTL DEF TransferSpec

\* The client's state, the ring with its writer, and the socket buffer stay what
\* they are meant to be: writer, in particular, which main resets late, never
\* leaves the ring.
THEOREM TransferTypes == TransferSpec => []TransferTypeOK
<1>1. ASSUME TransferInv PROVE TransferTypeOK
  <2>1. WireInv /\ LoopInv /\ ClientTypeOK
    BY <1>1 DEF TransferInv, WireInv, ClientInv
  <2>2. ASSUME NEW w \in 0 .. NUM_PACKETS - 1, NEW j \in 1 .. NUM_ELEMENTS
        PROVE  input[w].data[j] \in Nat \cup {Garbage}
    <3>1. input[w] \in Slots
      BY <2>1, Zenon DEF LoopInv
    <3>2. input[w].data \in [ 1 .. NUM_ELEMENTS -> Content ]
      BY <3>1 DEF Slots
    <3> QED
      BY <3>2, Zenon DEF Content
  <2> QED
    BY <2>1, <2>2, Zenon DEF TransferTypeOK, WireInv, LoopInv
<1> QED
  BY <1>1, TransferInvariant, PTL

\* The receive loop ends at the first done bit it receives, and what it encodes
\* last is then the end of the file, whatever the network did.
THEOREM LoopStopsAtDone == TransferSpec => []StopsAtFirstDone
<1>1. TransferInv => StopsAtFirstDone
  BY DEF TransferInv
<1> QED
  BY <1>1, TransferInvariant, PTL

\* Every byte that encode() is given was put there by the last receive that wrote
\* to that byte of the slot, or by none.
THEOREM BytesOfSlots == TransferSpec => []SlotMemory
<1>1. ASSUME TransferInv PROVE SlotMemory
  <2> SUFFICES ASSUME NEW k \in 1 .. Len(fed), NEW j \in 1 .. Len(fed[k])
               PROVE  IF Writers(k, j) = {}
                        THEN fed[k][j] = Garbage
                        ELSE fed[k][j] = got[Max(Writers(k, j))][1].from + j - 1
    BY DEF SlotMemory
  <2>1. Holds(got, fed[k][j], Writers(k, j), j)
    BY <1>1, Zenon DEF TransferInv, MemoryInv
  <2>2. CASE Writers(k, j) = {}
    BY <2>1, <2>2, Zenon DEF Holds
  <2>3. CASE Writers(k, j) # {}
    <3>1. PICK m \in Writers(k, j) :
            (\A x \in Writers(k, j) : x <= m) /\ fed[k][j] = got[m][1].from + j - 1
      BY <2>1, <2>3, Zenon DEF Holds
    <3>2. Writers(k, j) \subseteq Int
      BY DEF Writers
    <3>3. Max(Writers(k, j)) = m
      <4> DEFINE S == Writers(k, j)
      <4> HIDE DEF S
      <4>1. \A x \in S : m >= x
        BY <3>1, <3>2 DEF S
      <4>2. m \in S /\ S \subseteq Int
        BY <3>1, <3>2 DEF S
      <4>3. ASSUME NEW y \in S, \A x \in S : y >= x PROVE y = m
        BY <4>1, <4>2, <4>3
      <4> QED
        BY <4>1, <4>2, <4>3 DEF Max, S
    <3> QED
      BY <2>3, <3>1, <3>3, Zenon
  <2> QED
    BY <2>2, <2>3
<1> QED
  BY <1>1, TransferInvariant, PTL
=============================================================================
