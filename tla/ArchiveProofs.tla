--------------------------- MODULE ArchiveProofs ---------------------------
(***************************************************************************)
(* Proofs about the archive: what the encoder's references mean, and what  *)
(* the decoder makes of them, for any set of chunks and digests and any    *)
(* number of packets.                                                      *)
(***************************************************************************)
EXTENDS Archive, FiniteSetTheorems, SequenceTheorems, TLAPS

\* The hashes of a chunk are hashes.
LEMMA HashType ==
  ASSUME NEW c \in Chunk, NEW h \in HashesOf(c)
  PROVE  h \in HASH
  BY DEF HASH

\* How many bytes have gone in and out by the k-th record.
LEMMA Totals ==
  ASSUME EncodeTypeOK, EncodeAssumption, NEW k \in 0 .. Len(log)
  PROVE  Behind(k) \in Nat /\ Consumed(k) \in Nat
<1>1. CASE k = 0
  BY <1>1 DEF Behind, Consumed
<1>2. CASE k > 0
  <2>1. log[k] \in Entry
    BY <1>2 DEF EncodeTypeOK
  <2>2. /\ log[k].at \in Nat /\ log[k].size \in Nat /\ log[k].from \in Nat
        /\ log[k].chunk \in Chunk
    BY <2>1 DEF Entry
  <2>3. ChunkLength[log[k].chunk] \in Nat
    BY <2>2 DEF EncodeAssumption
  <2> QED
    BY <1>2, <2>2, <2>3 DEF Behind, Consumed
<1> QED
  BY <1>1, <1>2

\* What taking a chunk does to the records and the log: one more of each, and
\* nothing else.
LEMMA TakeAppends ==
  ASSUME EncodeTypeOK, NEW c \in Chunk, NEW h \in HashesOf(c), NEW r \in Record,
         NEW size \in Nat, Take(c, h, r, size)
  PROVE  /\ packet' \in Nat /\ index' \in Nat /\ cut' \in BOOLEAN
         /\ outlength' \in Nat /\ offset' \in Nat
         /\ file' \in Seq(Record) /\ log' \in Seq(Entry)
         /\ Len(file') = Len(file) + 1 /\ Len(log') = Len(file')
         /\ file'[Len(file) + 1] = r
         /\ log'[Len(file) + 1] = NewEntry(c, h, size)
         /\ \A k \in 1 .. Len(file) : file'[k] = file[k] /\ log'[k] = log[k]
<1>1. /\ index' = index + 1 /\ packet' = packet /\ offset' = offset
      /\ cut' = (cut \/ ZeroIn[c] # "never")
      /\ outlength' = outlength + size
      /\ file' = Append(file, r)
      /\ log' = Append(log, NewEntry(c, h, size))
  BY DEF Take, WriteRecord
<1>2. /\ file \in Seq(Record) /\ log \in Seq(Entry) /\ Len(log) = Len(file)
      /\ packet \in Nat /\ index \in Nat /\ outlength \in Nat /\ offset \in Nat
  BY DEF EncodeTypeOK
<1>3. Consumed(Len(log)) \in Nat
  BY <1>2, EncodeAssumption, Totals
<1>4. NewEntry(c, h, size) \in Entry
  BY <1>2, <1>3, HashType DEF NewEntry, Entry
<1>5. cut' \in BOOLEAN
  BY <1>1, Zenon
<1> HIDE DEF NewEntry
<1> QED
  BY <1>1, <1>2, <1>4, <1>5

\* The fields of a new entry.
LEMMA NewFields ==
  ASSUME NEW c, NEW h, NEW size
  PROVE  /\ NewEntry(c, h, size).chunk = c /\ NewEntry(c, h, size).hash = h
         /\ NewEntry(c, h, size).packet = packet /\ NewEntry(c, h, size).index = index
         /\ NewEntry(c, h, size).at = offset + outlength
         /\ NewEntry(c, h, size).size = size
         /\ NewEntry(c, h, size).from = Consumed(Len(log))
  BY DEF NewEntry

\* The kinds of record are told apart by their sets.
LEMMA KindsOfRecords ==
  ASSUME EncodeTypeOK
  PROVE  /\ Literals \subseteq 1 .. Len(file)
         /\ References \subseteq 1 .. Len(file)
         /\ Literals \cap References = {}
         /\ Literals \cup References = 1 .. Len(file)
<1>1. ASSUME NEW k \in 1 .. Len(file)
      PROVE  file[k].kind \in {"literal", "reference"}
  <2>1. file[k] \in Record
    BY DEF EncodeTypeOK
  <2> QED
    BY <2>1 DEF Record
<1> QED
  BY <1>1 DEF Literals, References

\* A literal that is taken joins the literals; nothing else changes.
LEMMA LiteralAppended ==
  ASSUME EncodeTypeOK, NEW c \in Chunk, NEW h \in HashesOf(c),
         NEW size \in Nat, Take(c, h, Literal(c), size)
  PROVE  /\ Literals' = Literals \cup {Len(file) + 1}
         /\ References' = References
         /\ Literal(c) \in Record
<1>1. Intact(c) \in BOOLEAN
  BY Zenon DEF Intact
<1>2. Literal(c) \in Record /\ Literal(c).kind = "literal"
  BY <1>1 DEF Record, Literal
<1>3. Len(file) \in Nat
  BY DEF EncodeTypeOK
<1> HIDE DEF Literal
<1>4. /\ Len(file') = Len(file) + 1 /\ file'[Len(file) + 1] = Literal(c)
      /\ \A k \in 1 .. Len(file) : file'[k] = file[k]
  BY <1>2, TakeAppends
<1> QED
  BY <1>2, <1>3, <1>4 DEF Literals, References

\* A reference that is taken joins the references; nothing else changes.
LEMMA ReferenceAppended ==
  ASSUME EncodeTypeOK, NEW c \in Chunk, NEW h \in HashesOf(c), NEW id \in Nat,
         NEW size \in Nat, Take(c, h, Reference(id), size)
  PROVE  /\ References' = References \cup {Len(file) + 1}
         /\ Literals' = Literals
         /\ Reference(id) \in Record
<1>1. Reference(id) \in Record /\ Reference(id).kind = "reference"
  BY DEF Record, Reference
<1>2. Len(file) \in Nat
  BY DEF EncodeTypeOK
<1>3. /\ Len(file') = Len(file) + 1 /\ file'[Len(file) + 1] = Reference(id)
      /\ \A k \in 1 .. Len(file) : file'[k] = file[k]
  BY <1>1, TakeAppends
<1> QED
  BY <1>1, <1>2, <1>3 DEF Literals, References

-----------------------------------------------------------------------------

\* Nothing is written and nothing is known.
LEMMA EncodeInvInit == EncodeInit => EncodeInv
<1> SUFFICES ASSUME EncodeInit PROVE EncodeInv
  OBVIOUS
<1>1. Literals = {} /\ References = {}
  BY DEF EncodeInit, Literals, References
<1>2. EncodeTypeOK
  <2>1. cut \in BOOLEAN
    BY Zenon DEF EncodeInit
  <2>2. /\ outlength = 0 /\ offset = 0 /\ packet = 1 /\ index = 0 /\ umap = [ h \in HASH |-> 0 ]
        /\ file = << >> /\ log = << >>
    BY Zenon DEF EncodeInit
  <2> QED
    BY <2>1, <2>2 DEF EncodeTypeOK
<1>3. LogIsTrue
  BY DEF EncodeInit, LogIsTrue
<1>4. MapKnowsLiterals
  BY <1>1 DEF EncodeInit, MapKnowsLiterals
<1>5. OneLiteralPerHash /\ ReferenceNamesPosition
  BY <1>1 DEF OneLiteralPerHash, ReferenceNamesPosition
<1> QED
  BY <1>2, <1>3, <1>4, <1>5 DEF EncodeInv

\* The fields of what the log and the records hold.
LEMMA EntryFields ==
  ASSUME EncodeTypeOK, NEW k \in 1 .. Len(file)
  PROVE  /\ log[k].chunk \in Chunk /\ log[k].hash \in HASH
         /\ log[k].packet \in Nat /\ log[k].index \in Nat
         /\ k \in Literals => file[k].chunk \in Chunk /\ file[k].intact \in BOOLEAN
         /\ k \in References => file[k].id \in Nat
<1>1. log[k] \in Entry /\ file[k] \in Record
  BY DEF EncodeTypeOK
<1> QED
  BY <1>1 DEF Entry, Record, Literals, References

\* A hash that is new becomes a literal, and the map learns it.
LEMMA LiteralKeepsInv ==
  ASSUME EncodeInv, EncodeLiteral
  PROVE  EncodeInv'
<1>0. PICK c \in Chunk : \E h \in HashesOf(c) :
        \E outlen \in PackedLengths[c] :
          umap[h] = 0 /\ Remember(h) /\ Take(c, h, Literal(c), HEADER_SIZE + outlen)
  BY Zenon DEF EncodeLiteral
<1>a. PICK h \in HashesOf(c) : \E outlen \in PackedLengths[c] :
        umap[h] = 0 /\ Remember(h) /\ Take(c, h, Literal(c), HEADER_SIZE + outlen)
  BY <1>0
<1>b. PICK outlen \in PackedLengths[c] :
        umap[h] = 0 /\ Remember(h) /\ Take(c, h, Literal(c), HEADER_SIZE + outlen)
  BY <1>a
<1> DEFINE size == HEADER_SIZE + outlen
<1>c. size \in Nat
  BY EncodeAssumption DEF EncodeAssumption, HEADER_SIZE
<1> HIDE DEF size
<1>1. umap[h] = 0 /\ Remember(h) /\ Take(c, h, Literal(c), size) /\ size \in Nat
  BY <1>b, <1>c DEF size
<1> DEFINE n == Len(file) + 1
<1>2. EncodeTypeOK /\ LogIsTrue /\ MapKnowsLiterals /\ OneLiteralPerHash
      /\ ReferenceNamesPosition
  BY DEF EncodeInv
<1>3. /\ Literals' = Literals \cup {n} /\ References' = References
      /\ Literal(c) \in Record
  BY <1>1, <1>2, LiteralAppended
<1>4. /\ packet' \in Nat /\ index' \in Nat /\ cut' \in BOOLEAN
      /\ outlength' \in Nat /\ offset' \in Nat
      /\ file' \in Seq(Record) /\ log' \in Seq(Entry)
      /\ Len(file') = n /\ Len(log') = Len(file')
      /\ file'[n] = Literal(c)
      /\ log'[n].chunk = c /\ log'[n].hash = h
      /\ log'[n].packet = packet /\ log'[n].index = index
      /\ \A k \in 1 .. Len(file) : file'[k] = file[k] /\ log'[k] = log[k]
  BY <1>1, <1>2, <1>3, TakeAppends, NewFields
<1>5. Literals \subseteq 1 .. Len(file) /\ References \subseteq 1 .. Len(file)
  BY <1>2, KindsOfRecords
<1>6. h \in HASH /\ Len(file) \in Nat /\ index \in Nat /\ umap \in [ HASH -> Nat ]
  BY <1>1, <1>2, HashType DEF EncodeTypeOK
<1>7. umap' = [ umap EXCEPT ![h] = index + 1 ]
  BY <1>1 DEF Remember
<1>8. \A m \in Literals : log[m].hash # h /\ log[m].hash \in HASH /\ log[m].index \in Nat
  BY <1>1, <1>2, <1>5, EntryFields DEF MapKnowsLiterals
<1>9. EncodeTypeOK'
  BY <1>4, <1>6, <1>7 DEF EncodeTypeOK
<1>10. LogIsTrue'
  BY <1>1, <1>2, <1>4, <1>6 DEF LogIsTrue, Literal
<1>11. MapKnowsLiterals'
  <2>1. ASSUME NEW m \in Literals'
        PROVE  umap'[log'[m].hash] = log'[m].index + 1
    <3>1. CASE m = n
      BY <1>4, <1>6, <1>7, <3>1
    <3>2. CASE m \in Literals
      BY <1>2, <1>4, <1>5, <1>6, <1>7, <1>8, <3>2 DEF MapKnowsLiterals
    <3> QED
      BY <1>3, <3>1, <3>2
  <2>2. ASSUME NEW g \in HASH, umap'[g] # 0
        PROVE  \E m \in Literals' : log'[m].hash = g
    <3>1. CASE g = h
      BY <1>3, <1>4, <3>1
    <3>2. CASE g # h
      <4>1. PICK m \in Literals : log[m].hash = g
        BY <1>2, <1>6, <1>7, <2>2, <3>2 DEF MapKnowsLiterals
      <4> QED
        BY <1>3, <1>4, <1>5, <4>1
    <3> QED
      BY <3>1, <3>2
  <2> QED
    BY <2>1, <2>2 DEF MapKnowsLiterals
<1>12. OneLiteralPerHash'
  BY <1>2, <1>3, <1>4, <1>5, <1>8 DEF OneLiteralPerHash
<1>13. ReferenceNamesPosition'
  <2>1. ASSUME NEW k \in References
        PROVE  \E m \in Literals' :
                 m < k /\ log'[m].hash = log'[k].hash /\ file'[k].id = log'[m].index
    <3>1. PICK m \in Literals :
            m < k /\ log[m].hash = log[k].hash /\ file[k].id = log[m].index
      BY <1>2 DEF ReferenceNamesPosition
    <3> QED
      BY <1>3, <1>4, <1>5, <3>1
  <2> QED
    BY <1>3, <2>1 DEF ReferenceNamesPosition
<1> QED
  BY <1>9, <1>10, <1>11, <1>12, <1>13 DEF EncodeInv

\* A hash that is known becomes a reference, to the position the map holds.
LEMMA ReferenceKeepsInv ==
  ASSUME EncodeInv, EncodeReference
  PROVE  EncodeInv'
<1>0. PICK c \in Chunk : \E h \in HashesOf(c) :
        umap[h] # 0 /\ Take(c, h, Reference(umap[h] - 1), HEADER_SIZE) /\ umap' = umap
  BY Zenon DEF EncodeReference
<1> DEFINE size == HEADER_SIZE
<1>a. PICK h \in HashesOf(c) :
        umap[h] # 0 /\ Take(c, h, Reference(umap[h] - 1), HEADER_SIZE) /\ umap' = umap
  BY <1>0
<1>b. size \in Nat
  BY DEF HEADER_SIZE
<1> HIDE DEF size
<1>1. /\ umap[h] # 0 /\ Take(c, h, Reference(umap[h] - 1), size) /\ umap' = umap
      /\ size \in Nat
  BY <1>a, <1>b DEF size
<1> DEFINE n == Len(file) + 1
           id == umap[h] - 1
<1>2. EncodeTypeOK /\ LogIsTrue /\ MapKnowsLiterals /\ OneLiteralPerHash
      /\ ReferenceNamesPosition
  BY DEF EncodeInv
<1>3. h \in HASH /\ Len(file) \in Nat /\ umap \in [ HASH -> Nat ] /\ id \in Nat
  BY <1>1, <1>2, HashType DEF EncodeTypeOK
<1>4. /\ References' = References \cup {n} /\ Literals' = Literals
      /\ Reference(id) \in Record
  BY <1>1, <1>2, <1>3, ReferenceAppended
<1>5. /\ packet' \in Nat /\ index' \in Nat /\ cut' \in BOOLEAN
      /\ outlength' \in Nat /\ offset' \in Nat
      /\ file' \in Seq(Record) /\ log' \in Seq(Entry)
      /\ Len(file') = n /\ Len(log') = Len(file')
      /\ file'[n] = Reference(id)
      /\ log'[n].chunk = c /\ log'[n].hash = h
      /\ log'[n].packet = packet /\ log'[n].index = index
      /\ \A k \in 1 .. Len(file) : file'[k] = file[k] /\ log'[k] = log[k]
  BY <1>1, <1>2, <1>4, TakeAppends, NewFields
<1>6. Literals \subseteq 1 .. Len(file) /\ References \subseteq 1 .. Len(file)
  BY <1>2, KindsOfRecords
<1>7. EncodeTypeOK'
  BY <1>1, <1>3, <1>5 DEF EncodeTypeOK
<1>8. LogIsTrue'
  BY <1>1, <1>2, <1>3, <1>5 DEF LogIsTrue, Reference
<1>9. MapKnowsLiterals'
  BY <1>1, <1>2, <1>4, <1>5, <1>6 DEF MapKnowsLiterals
<1>10. OneLiteralPerHash'
  BY <1>2, <1>4, <1>5, <1>6 DEF OneLiteralPerHash
<1>11. ReferenceNamesPosition'
  <2>1. ASSUME NEW k \in References
        PROVE  \E m \in Literals' :
                 m < k /\ log'[m].hash = log'[k].hash /\ file'[k].id = log'[m].index
    <3>1. PICK m \in Literals :
            m < k /\ log[m].hash = log[k].hash /\ file[k].id = log[m].index
      BY <1>2 DEF ReferenceNamesPosition
    <3> QED
      BY <1>4, <1>5, <1>6, <3>1
  <2>2. \E m \in Literals' :
          m < n /\ log'[m].hash = log'[n].hash /\ file'[n].id = log'[m].index
    <3>1. PICK m \in Literals : log[m].hash = h
      BY <1>1, <1>2, <1>3 DEF MapKnowsLiterals
    <3>2. umap[h] = log[m].index + 1 /\ m \in 1 .. Len(file)
      BY <1>2, <1>6, <3>1 DEF MapKnowsLiterals
    <3>3. log[m].index \in Nat
      BY <1>2, <3>2, EntryFields
    <3>4. file'[n].id = log[m].index
      BY <1>5, <3>2, <3>3 DEF Reference
    <3>5. m < n /\ log'[m] = log[m] /\ log'[n].hash = h
      BY <1>3, <1>5, <3>2
    <3> HIDE DEF n, id
    <3> QED
      BY <1>4, <3>1, <3>4, <3>5, Zenon
  <2> QED
    BY <1>4, <2>1, <2>2 DEF ReferenceNamesPosition
<1> QED
  BY <1>7, <1>8, <1>9, <1>10, <1>11 DEF EncodeInv

\* Every step of the encoder keeps the invariant: the next packet resets the
\* position but neither the map nor the records.
LEMMA EncodeInvStep ==
  ASSUME EncodeInv, [EncodeStep \/ LastPacket]_encodeVars
  PROVE  EncodeInv'
<1>1. CASE EncodeLiteral
  BY <1>1, LiteralKeepsInv
<1>2. CASE EncodeReference
  BY <1>2, ReferenceKeepsInv
<1>3. CASE NextPacket \/ LastPacket \/ UNCHANGED encodeVars
  <2>1. /\ umap' = umap /\ file' = file /\ log' = log
        /\ packet' = packet \/ packet' = packet + 1
        /\ index' = index \/ index' = 0
        /\ cut' = cut \/ cut' = FALSE
        /\ outlength' = outlength \/ outlength' = 0
        /\ offset' = offset \/ offset' = offset + outlength
    BY <1>3, Zenon DEF NextPacket, LastPacket, EncodeReturns, encodeVars
  <2>0. cut' \in BOOLEAN
    BY <2>1, Zenon DEF EncodeInv, EncodeTypeOK
  <2>2. Literals' = Literals /\ References' = References
    BY <2>1 DEF Literals, References
  <2>3. EncodeTypeOK'
    BY <2>0, <2>1 DEF EncodeInv, EncodeTypeOK
  <2>4. LogIsTrue'
    BY <2>1 DEF EncodeInv, LogIsTrue
  <2>5. MapKnowsLiterals'
    BY <2>1, <2>2 DEF EncodeInv, MapKnowsLiterals
  <2>6. OneLiteralPerHash' /\ ReferenceNamesPosition'
    BY <2>1, <2>2 DEF EncodeInv, OneLiteralPerHash, ReferenceNamesPosition
  <2> QED
    BY <2>3, <2>4, <2>5, <2>6 DEF EncodeInv
<1> QED
  BY <1>1, <1>2, <1>3 DEF EncodeStep

-----------------------------------------------------------------------------

\* A digest with a zero byte has a first one.
LEMMA FirstZeroIsFirst ==
  ASSUME NEW digest \in Seq(Nat), Zeros(digest) # {}
  PROVE  /\ FirstZero(digest) \in Zeros(digest)
         /\ FirstZero(digest) \in 1 .. Len(digest)
         /\ \A j \in Zeros(digest) : FirstZero(digest) <= j
<1>1. Zeros(digest) \subseteq 1 .. Len(digest) /\ Zeros(digest) \subseteq Nat
  BY DEF Zeros
<1> DEFINE R == OpToRel(<, Nat)
<1>2. IsWellFoundedOn(R, Nat)
  BY NatLessThanWellFounded
<1>3. \A x, y \in Nat : << y, x >> \in R <=> y < x
  BY DEF OpToRel
<1> HIDE DEF R
<1>4. PICK i \in Zeros(digest) : \A j \in Zeros(digest) : ~ (<< j, i >> \in R)
  BY <1>1, <1>2, WFMin, Zenon
<1>5. \A j \in Zeros(digest) : i <= j
  <2>1. ASSUME NEW j \in Zeros(digest)
        PROVE  ~ (j < i)
    <3>1. i \in Nat /\ j \in Nat
      BY <1>1
    <3> QED
      BY <1>3, <1>4, <3>1, Zenon
  <2> QED
    BY <1>1, <2>1
<1>6. /\ FirstZero(digest) \in Zeros(digest)
      /\ \A j \in Zeros(digest) : FirstZero(digest) <= j
  BY <1>5, Zenon DEF FirstZero
<1> QED
  BY <1>1, <1>6

\* Chunks with a hash in common are equal, or their digests agree up to a zero.
LEMMA CommonHash ==
  ASSUME EncodeAssumption, NEW c \in Chunk, NEW d \in Chunk,
         NEW h \in HashesOf(c), h \in HashesOf(d)
  PROVE  c = d \/ SamePrefix(c, d)
<1> DEFINE p == DigestOf[c]
           q == DigestOf[d]
<1>1. /\ p \in Seq(Nat) /\ q \in Seq(Nat) /\ HASH_SIZE \in Nat
      /\ Len(p) = HASH_SIZE /\ Len(q) = HASH_SIZE
      /\ p = q => c = d
      /\ StackTails \subseteq Seq(Nat)
  BY DEF EncodeAssumption
<1>2. ASSUME NEW e \in Chunk, h \in HashesOf(e), Zeros(DigestOf[e]) # {}
      PROVE  h = SubSeq(DigestOf[e], 1, FirstZero(DigestOf[e]) - 1)
  BY <1>2, Zenon DEF HashesOf
<1>3. ASSUME NEW e \in Chunk, h \in HashesOf(e), Zeros(DigestOf[e]) = {}
      PROVE  \E tail \in StackTails : h = DigestOf[e] \o tail
  BY <1>3, Zenon DEF HashesOf
<1> HIDE DEF p, q
<1>4. CASE Zeros(p) # {} /\ Zeros(q) # {}
  <2> DEFINE i == FirstZero(p)
             j == FirstZero(q)
  <2>1. /\ i \in Zeros(p) /\ i \in 1 .. Len(p)
        /\ j \in Zeros(q) /\ j \in 1 .. Len(q)
    BY <1>1, <1>4, FirstZeroIsFirst, Zenon
  <2>2. h = SubSeq(p, 1, i - 1) /\ h = SubSeq(q, 1, j - 1)
    BY <1>2, <1>4, Zenon DEF p, q
  <2> HIDE DEF i, j
  <2>a. \A r \in Seq(Nat) : \A z \in 1 .. Len(r) : Len(SubSeq(r, 1, z - 1)) = z - 1
    OBVIOUS
  <2>3. Len(h) = i - 1 /\ Len(h) = j - 1
    BY <1>1, <2>1, <2>2, <2>a, Zenon
  <2>4. i = j
    BY <2>1, <2>3
  <2>5. \A t \in 1 .. i - 1 : p[t] = h[t] /\ q[t] = h[t]
    BY <1>1, <2>1, <2>2, <2>4
  <2> QED
    BY <2>1, <2>4, <2>5 DEF SamePrefix, p, q
<1>5. CASE Zeros(p) = {} /\ Zeros(q) = {}
  <2>1. PICK t \in StackTails : h = p \o t
    BY <1>3, <1>5, Zenon DEF p
  <2>2. PICK u \in StackTails : h = q \o u
    BY <1>3, <1>5, Zenon DEF q
  <2>3. \A i \in 1 .. HASH_SIZE : p[i] = h[i]
    BY <1>1, <2>1
  <2>4. \A i \in 1 .. HASH_SIZE : q[i] = h[i]
    BY <1>1, <2>2
  <2>5. \A i \in 1 .. Len(p) : p[i] = q[i]
    BY <1>1, <2>3, <2>4
  <2>6. p = q
    BY <1>1, <2>5, SeqEqual, Zenon
  <2> QED
    BY <1>1, <2>6
<1>6. ASSUME NEW e \in Chunk, NEW f \in Chunk, h \in HashesOf(e), h \in HashesOf(f),
             Zeros(DigestOf[e]) # {}, Zeros(DigestOf[f]) = {}
      PROVE  FALSE
  <2>1. PICK t \in StackTails : h = DigestOf[f] \o t
    BY <1>3, <1>6, Zenon
  <2> DEFINE r == DigestOf[e]
             i == FirstZero(r)
  <2>2. r \in Seq(Nat) /\ Len(r) = HASH_SIZE
    BY DEF EncodeAssumption
  <2>3. i \in 1 .. Len(r)
    BY <1>6, <2>2, FirstZeroIsFirst, Zenon
  <2>4. h = SubSeq(r, 1, i - 1)
    BY <1>2, <1>6, Zenon
  <2> HIDE DEF i, r
  <2>5. Len(h) = i - 1
    BY <2>2, <2>3, <2>4
  <2>6. DigestOf[f] \in Seq(Nat) /\ Len(DigestOf[f]) = HASH_SIZE /\ t \in Seq(Nat)
    BY <1>1 DEF EncodeAssumption
  <2>7. Len(h) >= HASH_SIZE
    BY <1>1, <2>1, <2>6
  <2> QED
    BY <1>1, <2>2, <2>3, <2>5, <2>7
<1> QED
  BY <1>4, <1>5, <1>6 DEF p, q

\* The invariant explains every mistaken chunk.
LEMMA MistakesExplained ==
  ASSUME EncodeAssumption, EncodeInv
  PROVE  MistakenOnlyByPrefix
<1>1. EncodeTypeOK /\ LogIsTrue
  BY DEF EncodeInv
<1>2. Literals \subseteq 1 .. Len(file) /\ References \subseteq 1 .. Len(file)
  BY <1>1, KindsOfRecords
<1>3. ASSUME NEW k \in References, NEW m \in Literals, log[m].hash = log[k].hash
      PROVE  log[m].chunk = log[k].chunk \/ SamePrefix(log[m].chunk, log[k].chunk)
  <2>1. log[m].chunk \in Chunk /\ log[k].chunk \in Chunk
    BY <1>1, <1>2, EntryFields
  <2>2. /\ log[m].hash \in HashesOf(log[m].chunk)
        /\ log[m].hash \in HashesOf(log[k].chunk)
    BY <1>1, <1>2, <1>3 DEF LogIsTrue
  <2> QED
    BY <2>1, <2>2, CommonHash
<1> QED
  BY <1>3 DEF MistakenOnlyByPrefix

-----------------------------------------------------------------------------

\* The decoder has read nothing.
LEMMA NothingRead ==
  ASSUME EncodeTypeOK, records = 0
  PROVE  LiteralsRead = {}
  BY KindsOfRecords DEF LiteralsRead

\* Before the decoder starts, all it holds is empty.
LEMMA DecodeInvIdle ==
  ASSUME EncodeTypeOK, written \in BOOLEAN,
         archive = IF written THEN file ELSE << >>,
         records = 0, Chunks = << >>, Output = << >>
  PROVE  DecodeInv
<1>1. LiteralsRead = {}
  BY NothingRead
<1>2. Cardinality(LiteralsRead) = 0
  BY <1>1, FS_EmptySet, Zenon
<1>3. Len(archive) \in Nat
  BY DEF EncodeTypeOK
<1> QED
  BY <1>1, <1>2, <1>3 DEF DecodeInv

\* Places in the decoder's list are numbers.
LEMMA Places ==
  ASSUME EncodeTypeOK, records \in Nat
  PROVE  /\ \A m \in Literals : PlaceOf(m) \in Nat
         /\ IsFiniteSet(LiteralsRead)
         /\ records + 1 \in Literals => PlaceOf(records + 1) = Cardinality(LiteralsRead)
<1>1. Literals \subseteq 1 .. Len(file) /\ Len(file) \in Nat
  BY KindsOfRecords DEF EncodeTypeOK
<1>2. IsFiniteSet(1 .. Len(file))
  BY <1>1, FS_Interval
<1>3. ASSUME NEW m
      PROVE  IsFiniteSet({ j \in Literals : j < m })
  <2>1. { j \in Literals : j < m } \in SUBSET (1 .. Len(file))
    BY <1>1
  <2> QED
    BY <1>2, <2>1, FS_Subset, Zenon
<1>4. \A m \in Literals : PlaceOf(m) \in Nat
  BY <1>3, FS_CardinalityType, Zenon DEF PlaceOf
<1>5. IsFiniteSet(LiteralsRead)
  BY <1>3, Zenon DEF LiteralsRead
<1>6. PlaceOf(records + 1) = Cardinality(LiteralsRead)
  BY Zenon DEF PlaceOf, LiteralsRead
<1> QED
  BY <1>4, <1>5, <1>6

\* What stays the same while the decoder works.
LEMMA DecodingKeeps ==
  ASSUME Decoding, DecodeInv, EncodeInv
  PROVE  /\ written = TRUE /\ written' = TRUE
         /\ archive = file /\ archive' = file /\ file' = file /\ log' = log
         /\ Literals' = Literals /\ References' = References
         /\ \A m \in Literals : PlaceOf(m)' = PlaceOf(m) /\ Piece(m)' = Piece(m)
<1>1. /\ written /\ written' = written /\ archive' = archive
      /\ file' = file /\ log' = log
  BY Zenon DEF Decoding, DecoderStep, DecodeLiteral, DecodeReference, IgnoreReference,
       ReadRecord, encodeVars
<1>2. written \in BOOLEAN /\ archive = IF written THEN file ELSE << >>
  BY DEF DecodeInv
<1>3. written = TRUE /\ written' = TRUE /\ archive = file
  BY <1>1, <1>2, Zenon
<1>4. Literals' = Literals /\ References' = References
  BY <1>1 DEF Literals, References
<1>5. \A m \in Literals : PlaceOf(m)' = PlaceOf(m) /\ Piece(m)' = Piece(m)
  BY <1>1, <1>4, Zenon DEF PlaceOf, Piece
<1> QED
  BY <1>1, <1>3, <1>4, <1>5

\* A literal goes to the end of the decoder's list, which is its place.
LEMMA DecodeLiteralKeepsInv ==
  ASSUME EncodeInv, DecodeInv, Decoding, DecodeLiteral
  PROVE  DecodeInv'
<1> DEFINE r == records + 1
           Pieces == [ chunk : Chunk, intact : BOOLEAN ]
<1>1. /\ written' = TRUE /\ archive = file /\ archive' = file
      /\ file' = file /\ log' = log
      /\ Literals' = Literals /\ References' = References
      /\ \A m \in Literals : PlaceOf(m)' = PlaceOf(m) /\ Piece(m)' = Piece(m)
  BY DecodingKeeps
<1>2. /\ records < Len(file) /\ file[r].kind = "literal" /\ records' = r
      /\ Chunks' = Append(Chunks, [ chunk |-> file[r].chunk, intact |-> file[r].intact ])
      /\ Output' = Append(Output, << [ chunk |-> file[r].chunk, intact |-> file[r].intact ] >>)
  BY <1>1, Zenon DEF DecodeLiteral, ReadRecord, Header, Decompressed
<1>3. /\ records \in Nat /\ Len(file) \in Nat
      /\ Chunks \in Seq(Pieces) /\ Output \in Seq(Seq(Pieces)) /\ Len(Output) = records
      /\ Len(Chunks) = Cardinality(LiteralsRead)
  BY DEF DecodeInv, EncodeInv, EncodeTypeOK
<1>4. r \in 1 .. Len(file) /\ r \in Literals
  BY <1>2, <1>3 DEF Literals
<1>5. EncodeTypeOK /\ LogIsTrue
  BY DEF EncodeInv
<1>6. /\ Literals \subseteq 1 .. Len(file) /\ References \subseteq 1 .. Len(file)
      /\ Literals \cap References = {}
  BY <1>5, KindsOfRecords
<1>7. file[r].chunk = log[r].chunk
  BY <1>2, <1>4, <1>5 DEF LogIsTrue
<1>8. Piece(r) \in Pieces
  BY <1>4, <1>5, EntryFields, Zenon DEF Piece
<1>9. Chunks' = Append(Chunks, Piece(r)) /\ Output' = Append(Output, << Piece(r) >>)
  BY <1>2, <1>7, Zenon DEF Piece
<1>10. /\ \A m \in Literals : PlaceOf(m) \in Nat
       /\ IsFiniteSet(LiteralsRead) /\ PlaceOf(r) = Len(Chunks)
  BY <1>3, <1>4, <1>5, Places
<1>11. LiteralsRead' = LiteralsRead \cup {r} /\ r \notin LiteralsRead
  <2>1. LiteralsRead' = { j \in Literals : j < r + 1 }
    BY <1>1, <1>2, Zenon DEF LiteralsRead
  <2>2. \A j \in Literals : j < r + 1 <=> j < r \/ j = r
    BY <1>3, <1>6
  <2> QED
    BY <1>3, <1>4, <2>1, <2>2 DEF LiteralsRead
<1>12. Cardinality(LiteralsRead') = Len(Chunks) + 1
  BY <1>3, <1>10, <1>11, FS_AddElement
<1>13. \A m \in LiteralsRead : m \in Literals /\ m \in 1 .. records
  BY <1>3, <1>6 DEF LiteralsRead
<1> HIDE DEF Pieces
<1>14. /\ Chunks' \in Seq(Pieces) /\ Len(Chunks') = Len(Chunks) + 1
       /\ Chunks'[Len(Chunks) + 1] = Piece(r)
       /\ \A i \in 1 .. Len(Chunks) : Chunks'[i] = Chunks[i]
  BY <1>3, <1>8, <1>9
<1>15. /\ Output' \in Seq(Seq(Pieces)) /\ Len(Output') = r
       /\ Output'[r] = << Piece(r) >>
       /\ \A i \in 1 .. records : Output'[i] = Output[i]
  <2>1. << Piece(r) >> \in Seq(Pieces)
    BY <1>8
  <2> QED
    BY <1>3, <1>9, <2>1
<1>16. ASSUME NEW m \in LiteralsRead'
       PROVE  /\ PlaceOf(m)' < Len(Chunks')
              /\ Chunks'[PlaceOf(m)' + 1] = Piece(m)'
              /\ Output'[m] = << Piece(m)' >>
  <2>1. CASE m = r
    BY <1>1, <1>3, <1>4, <1>10, <1>14, <1>15, <2>1
  <2>2. CASE m \in LiteralsRead
    <3>1. /\ PlaceOf(m) < Len(Chunks) /\ PlaceOf(m) \in Nat
          /\ Chunks[PlaceOf(m) + 1] = Piece(m)
          /\ Output[m] = << Piece(m) >>
      BY <1>10, <1>13, <2>2 DEF DecodeInv
    <3> QED
      BY <1>1, <1>3, <1>13, <1>14, <1>15, <2>2, <3>1
  <2> QED
    BY <1>11, <2>1, <2>2
<1>17. ASSUME NEW k \in 1 .. records', NEW m \in Literals', k \in References',
              log'[m].hash = log'[k].hash, log'[m].index = PlaceOf(m)'
       PROVE  Output'[k] = << Piece(m)' >>
  <2>1. k \in 1 .. records
    BY <1>1, <1>2, <1>3, <1>4, <1>6, <1>17
  <2>2. Output[k] = << Piece(m) >>
    BY <1>1, <1>17, <2>1 DEF DecodeInv
  <2> QED
    BY <1>1, <1>15, <2>1, <2>2
<1>18. /\ written' \in BOOLEAN /\ archive' = IF written' THEN file' ELSE << >>
  BY <1>1, Zenon
<1>19. /\ records' \in Nat /\ records' <= Len(archive') /\ Len(Output') = records'
       /\ Len(Chunks') = Cardinality(LiteralsRead')
  BY <1>1, <1>2, <1>3, <1>12, <1>14, <1>15
<1> QED
  BY <1>14, <1>15, <1>16, <1>17, <1>18, <1>19 DEF DecodeInv, Pieces

\* A reference leaves the list alone, and copies the right piece when its
\* number is the place of the literal it was written for.
LEMMA ReferenceReadKeepsInv ==
  ASSUME EncodeInv, DecodeInv, Decoding, DecodeReference \/ IgnoreReference
  PROVE  DecodeInv'
<1> DEFINE r == records + 1
           Pieces == [ chunk : Chunk, intact : BOOLEAN ]
<1>1. /\ written' = TRUE /\ archive = file /\ archive' = file
      /\ file' = file /\ log' = log
      /\ Literals' = Literals /\ References' = References
      /\ \A m \in Literals : PlaceOf(m)' = PlaceOf(m) /\ Piece(m)' = Piece(m)
  BY DecodingKeeps
<1>2. /\ records < Len(file) /\ file[r].kind = "reference" /\ records' = r
      /\ Chunks' = Chunks
  BY <1>1, Zenon DEF DecodeReference, IgnoreReference, ReadRecord, Header
<1>3. \/ file[r].id < Len(Chunks) /\ Output' = Append(Output, << Chunks[file[r].id + 1] >>)
      \/ file[r].id >= Len(Chunks) /\ Output' = Append(Output, << >>)
  BY <1>1, Zenon DEF DecodeReference, IgnoreReference, Header
<1>4. /\ records \in Nat /\ Len(file) \in Nat
      /\ Chunks \in Seq(Pieces) /\ Output \in Seq(Seq(Pieces)) /\ Len(Output) = records
      /\ Len(Chunks) = Cardinality(LiteralsRead)
  BY DEF DecodeInv, EncodeInv, EncodeTypeOK
<1>5. EncodeTypeOK /\ OneLiteralPerHash /\ ReferenceNamesPosition
  BY DEF EncodeInv
<1>6. r \in 1 .. Len(file) /\ r \in References
  BY <1>2, <1>4 DEF References
<1>7. /\ Literals \subseteq 1 .. Len(file) /\ References \subseteq 1 .. Len(file)
      /\ Literals \cap References = {}
  BY <1>5, KindsOfRecords
<1>8. file[r].id \in Nat
  BY <1>5, <1>6, EntryFields
<1> HIDE DEF Pieces
<1>9. /\ Output' \in Seq(Seq(Pieces)) /\ Len(Output') = r
      /\ \A i \in 1 .. records : Output'[i] = Output[i]
      /\ file[r].id < Len(Chunks) => Output'[r] = << Chunks[file[r].id + 1] >>
  <2>1. CASE file[r].id >= Len(Chunks)
    <3>1. << >> \in Seq(Pieces) /\ Output' = Append(Output, << >>)
      BY <1>3, <1>4, <1>8, <2>1
    <3> QED
      BY <1>4, <1>8, <2>1, <3>1
  <2>2. CASE file[r].id < Len(Chunks)
    <3>1. << Chunks[file[r].id + 1] >> \in Seq(Pieces)
      BY <1>4, <1>8, <2>2
    <3>2. Output' = Append(Output, << Chunks[file[r].id + 1] >>)
      BY <1>3, <1>4, <1>8, <2>2
    <3> QED
      BY <1>4, <3>1, <3>2
  <2>3. file[r].id >= Len(Chunks) \/ file[r].id < Len(Chunks)
    BY <1>4, <1>8
  <2> QED
    BY <2>1, <2>2, <2>3, Zenon
<1>10. LiteralsRead' = LiteralsRead
  <2>1. LiteralsRead' = { j \in Literals : j < r + 1 }
    BY <1>1, <1>2, Zenon DEF LiteralsRead
  <2>2. \A j \in Literals : j < r + 1 <=> j < r
    BY <1>4, <1>6, <1>7
  <2> QED
    BY <2>1, <2>2 DEF LiteralsRead
<1>11. \A m \in LiteralsRead : m \in Literals /\ m \in 1 .. records
  BY <1>4, <1>7 DEF LiteralsRead
<1>12. ASSUME NEW m \in LiteralsRead'
       PROVE  /\ PlaceOf(m)' < Len(Chunks')
              /\ Chunks'[PlaceOf(m)' + 1] = Piece(m)'
              /\ Output'[m] = << Piece(m)' >>
  <2>1. m \in Literals /\ m \in 1 .. records /\ m \in LiteralsRead
    BY <1>10, <1>11
  <2>2. /\ PlaceOf(m) < Len(Chunks)
        /\ Chunks[PlaceOf(m) + 1] = Piece(m)
        /\ Output[m] = << Piece(m) >>
    BY <2>1 DEF DecodeInv
  <2> QED
    BY <1>1, <1>2, <1>9, <2>1, <2>2
<1>13. ASSUME NEW k \in 1 .. records', NEW m \in Literals', k \in References',
              log'[m].hash = log'[k].hash, log'[m].index = PlaceOf(m)'
       PROVE  Output'[k] = << Piece(m)' >>
  <2>1. CASE k \in 1 .. records
    <3>1. Output[k] = << Piece(m) >>
      BY <1>1, <1>13, <2>1 DEF DecodeInv
    <3> QED
      BY <1>1, <1>9, <2>1, <3>1
  <2>2. CASE k = r
    <3>1. PICK l \in Literals :
            l < r /\ log[l].hash = log[r].hash /\ file[r].id = log[l].index
      BY <1>5, <1>6 DEF ReferenceNamesPosition
    <3>2. l = m
      BY <1>1, <1>5, <1>13, <2>2, <3>1 DEF OneLiteralPerHash
    <3>3. m \in LiteralsRead
      BY <3>1, <3>2 DEF LiteralsRead
    <3>4. file[r].id = PlaceOf(m)
      BY <1>1, <1>13, <3>1, <3>2
    <3>5. PlaceOf(m) < Len(Chunks) /\ Chunks[PlaceOf(m) + 1] = Piece(m)
      BY <3>3 DEF DecodeInv
    <3> QED
      BY <1>1, <1>9, <2>2, <3>4, <3>5
  <2> QED
    BY <1>2, <1>4, <2>1, <2>2
<1>14. /\ written' \in BOOLEAN /\ archive' = IF written' THEN file' ELSE << >>
  BY <1>1, Zenon
<1>15. /\ records' \in Nat /\ records' <= Len(archive') /\ Len(Output') = records'
       /\ Chunks' \in Seq(Pieces) /\ Len(Chunks') = Cardinality(LiteralsRead')
  BY <1>1, <1>2, <1>4, <1>9, <1>10
<1> QED
  BY <1>9, <1>12, <1>13, <1>14, <1>15 DEF DecodeInv, Pieces

-----------------------------------------------------------------------------

LEMMA ArchiveInvInit == ArchiveInit => ArchiveInv
<1> SUFFICES ASSUME ArchiveInit PROVE ArchiveInv
  OBVIOUS
<1>1. EncodeInv
  BY EncodeInvInit, Zenon DEF ArchiveInit
<1>2. EncodeTypeOK
  BY <1>1 DEF EncodeInv
<1>3. /\ written = FALSE /\ archive = << >> /\ records = 0
      /\ Chunks = << >> /\ Output = << >>
  BY Zenon DEF ArchiveInit, DecoderInit
<1>4. written \in BOOLEAN /\ archive = IF written THEN file ELSE << >>
  BY <1>3, Zenon
<1>5. DecodeInv
  BY <1>2, <1>3, <1>4, DecodeInvIdle, Zenon
<1> QED
  BY <1>1, <1>5 DEF ArchiveInv

LEMMA ArchiveInvStep == ArchiveInv /\ [ArchiveNext]_archiveVars => ArchiveInv'
<1> SUFFICES ASSUME ArchiveInv, [ArchiveNext]_archiveVars PROVE ArchiveInv'
  OBVIOUS
<1>1. EncodeInv /\ DecodeInv /\ EncodeTypeOK
  BY DEF ArchiveInv, EncodeInv
<1>2. EncodeInv'
  <2>1. [EncodeStep \/ LastPacket]_encodeVars
    BY Zenon DEF ArchiveNext, Encoding, WriteFile, Decoding, archiveVars
  <2> QED
    BY <1>1, <2>1, EncodeInvStep
<1>3. EncodeTypeOK'
  BY <1>2 DEF EncodeInv
<1> SUFFICES DecodeInv'
  BY <1>2 DEF ArchiveInv
<1>4. CASE Encoding \/ WriteFile
  <2>1. /\ ~written
        /\ records' = records /\ Chunks' = Chunks /\ Output' = Output
    BY <1>4, Zenon DEF Encoding, WriteFile, decoderVars
  <2>2. archive = << >> /\ records = 0 /\ Chunks = << >> /\ Output = << >>
    <3>1. archive = << >>
      BY <1>1, <2>1, Zenon DEF DecodeInv
    <3>2. records = 0
      BY <1>1, <3>1 DEF DecodeInv
    <3>3. LiteralsRead = {}
      BY <1>1, <3>2, NothingRead
    <3>4. Cardinality(LiteralsRead) = 0
      BY <3>3, FS_EmptySet, Zenon
    <3>5. Len(Chunks) = 0 /\ Len(Output) = 0
      BY <1>1, <3>2, <3>4 DEF DecodeInv
    <3>6. /\ Chunks \in Seq([ chunk : Chunk, intact : BOOLEAN ])
          /\ Output \in Seq(Seq([ chunk : Chunk, intact : BOOLEAN ]))
      BY <1>1 DEF DecodeInv
    <3> QED
      BY <3>1, <3>2, <3>5, <3>6, EmptySeq, Zenon
  <2>3. /\ written' \in BOOLEAN
        /\ archive' = IF written' THEN file' ELSE << >>
    <3>1. CASE Encoding
      <4>1. written' = written /\ archive' = archive
        BY <3>1, Zenon DEF Encoding, decoderVars
      <4> QED
        BY <1>1, <2>1, <2>2, <4>1, Zenon DEF DecodeInv
    <3>2. CASE WriteFile
      BY <3>2, Zenon DEF WriteFile, LastPacket, EncodeReturns
    <3> QED
      BY <1>4, <3>1, <3>2
  <2>4. records' = 0 /\ Chunks' = << >> /\ Output' = << >>
    BY <2>1, <2>2, Zenon
  <2>5. LiteralsRead' = {}
    BY <1>3, <2>4 DEF LiteralsRead, Literals, EncodeTypeOK
  <2>6. Cardinality(LiteralsRead') = 0
    BY <2>5, FS_EmptySet, Zenon
  <2>7. Len(archive') \in Nat
    BY <1>3, <2>3 DEF EncodeTypeOK
  <2> QED
    BY <2>3, <2>4, <2>5, <2>6, <2>7 DEF DecodeInv
<1>5. CASE Decoding
  <2>1. DecodeLiteral \/ DecodeReference \/ IgnoreReference
    BY <1>5, Zenon DEF Decoding, DecoderStep
  <2> QED
    BY <1>1, <1>5, <2>1, DecodeLiteralKeepsInv, ReferenceReadKeepsInv
<1>6. CASE UNCHANGED archiveVars
  <2>1. /\ written' = written /\ file' = file /\ log' = log /\ archive' = archive
        /\ records' = records /\ Chunks' = Chunks /\ Output' = Output
    BY <1>6, Zenon DEF archiveVars, encodeVars, decoderVars
  <2>2. Literals' = Literals /\ References' = References
    BY <2>1 DEF Literals, References
  <2>3. /\ \A m : PlaceOf(m)' = PlaceOf(m) /\ Piece(m)' = Piece(m)
        /\ LiteralsRead' = LiteralsRead
    BY <2>1, <2>2, Zenon DEF PlaceOf, Piece, LiteralsRead
  <2> QED
    BY <1>1, <2>1, <2>2, <2>3 DEF DecodeInv
<1> QED
  BY <1>4, <1>5, <1>6, Zenon DEF ArchiveNext, Encoding

-----------------------------------------------------------------------------

\* The decoder's output is explained by the invariant.
LEMMA OutputExplained ==
  ASSUME ArchiveInv
  PROVE  DecodesUnlessKnownCause
<1> SUFFICES ASSUME NEW k \in 1 .. Len(Output),
                    ~Mistaken(k), ~Spoilt(k), ~Misplaced(k)
             PROVE  Output[k] = << [ chunk |-> log[k].chunk, intact |-> TRUE ] >>
  BY Zenon DEF DecodesUnlessKnownCause
<1> DEFINE m == LiteralFor(k)
<1>1. EncodeInv /\ DecodeInv /\ EncodeTypeOK
  BY DEF ArchiveInv, EncodeInv
<1>2. k \in 1 .. records /\ records \in Nat /\ Len(file) \in Nat /\ k \in 1 .. Len(file)
  <2>1. /\ Len(Output) = records /\ records \in Nat /\ records <= Len(archive)
        /\ archive = file \/ archive = << >>
    <3>1. archive = file \/ archive = << >>
      BY <1>1, Zenon DEF DecodeInv
    <3> QED
      BY <1>1, <3>1 DEF DecodeInv
  <2> QED
    BY <1>1, <2>1 DEF EncodeTypeOK
<1>3. /\ Literals \subseteq 1 .. Len(file)
      /\ Literals \cup References = 1 .. Len(file)
  BY <1>1, KindsOfRecords
<1>4. \E l \in Literals : log[l].hash = log[k].hash
  <2>1. CASE k \in Literals
    BY <2>1
  <2>2. CASE k \in References
    BY <1>1, <2>2, Zenon DEF EncodeInv, ReferenceNamesPosition
  <2> QED
    BY <1>2, <1>3, <2>1, <2>2
<1>5. m \in Literals /\ log[m].hash = log[k].hash
  BY <1>4, Zenon DEF LiteralFor
<1>6. Output[k] = << Piece(m) >>
  <2>1. CASE k \in Literals
    <3>1. m = k
      BY <1>1, <1>5, <2>1, Zenon DEF EncodeInv, OneLiteralPerHash
    <3>2. k \in LiteralsRead
      BY <1>2, <2>1 DEF LiteralsRead
    <3> QED
      BY <1>1, <3>1, <3>2, Zenon DEF DecodeInv
  <2>2. CASE k \in References
    <3>1. log[m].index = PlaceOf(m)
      BY <2>2, Zenon DEF Misplaced
    <3> QED
      BY <1>1, <1>2, <1>5, <2>2, <3>1, Zenon DEF DecodeInv
  <2> QED
    BY <1>2, <1>3, <2>1, <2>2
<1>7. log[m].chunk = log[k].chunk
  BY Zenon DEF Mistaken
<1>8. file[m].intact = TRUE
  <2>1. file[m].intact \in BOOLEAN
    BY <1>1, <1>3, <1>5, EntryFields
  <2> QED
    BY <2>1, Zenon DEF Spoilt
<1> QED
  BY <1>6, <1>7, <1>8, Zenon DEF Piece

\* The invariant of encoder and decoder holds in every state, for any chunks,
\* digests and number of packets.
THEOREM ArchiveInvariant == ArchiveSpec => []ArchiveInv
  BY ArchiveInvInit, ArchiveInvStep, PTL DEF ArchiveSpec

\* A hash is compressed once in the whole transfer: the map that deduplication
\* keeps between packets knows every hash it was ever asked for.
THEOREM HashIsCompressedOnce == ArchiveSpec => []OneLiteralPerHash
<1>1. ArchiveInv => OneLiteralPerHash
  BY DEF ArchiveInv, EncodeInv
<1> QED
  BY <1>1, ArchiveInvariant, PTL

\* The number in a reference is the position in its packet that deduplication
\* stored with the literal of the same hash, and that literal comes before it.
THEOREM ReferencesNamePositions == ArchiveSpec => []ReferenceNamesPosition
<1>1. ArchiveInv => ReferenceNamesPosition
  BY DEF ArchiveInv, EncodeInv
<1> QED
  BY <1>1, ArchiveInvariant, PTL

\* SHA_HW confuses two chunks only if their digests agree up to a zero byte,
\* whatever follows a digest without one in memory.
THEOREM MistakesNeedAPrefix == ArchiveSpec => []MistakenOnlyByPrefix
<1>1. ArchiveInv => MistakenOnlyByPrefix
  BY EncodeAssumption, MistakesExplained DEF ArchiveInv
<1> QED
  BY <1>1, ArchiveInvariant, PTL

\* The decoder restores every chunk, but for three causes that can be named.
THEOREM DecoderRestores == ArchiveSpec => []DecodesUnlessKnownCause
<1>1. ArchiveInv => DecodesUnlessKnownCause
  BY OutputExplained
<1> QED
  BY <1>1, ArchiveInvariant, PTL

\* The types of the encoder's state: the map holds numbers, and the log has an
\* entry for each record.
THEOREM EncodeTypes == ArchiveSpec => []EncodeTypeOK
<1>1. ArchiveInv => EncodeTypeOK
  BY DEF ArchiveInv, EncodeInv
<1> QED
  BY <1>1, ArchiveInvariant, PTL

-----------------------------------------------------------------------------
(* The first packet.  Its chunks have the positions of the records, which  *)
(* later packets do not: their positions start at 0 again.                 *)

FirstPacket ==
  /\ packet >= 1
  /\ packet = 1 => index = Len(log)
  /\ \A k \in 1 .. Len(log) : log[k].packet = 1 => log[k].index = k - 1

LEMMA FirstPacketStep ==
  ASSUME EncodeTypeOK, FirstPacket, [EncodeStep \/ LastPacket]_encodeVars
  PROVE  FirstPacket'
<1>1. /\ packet \in Nat /\ index \in Nat /\ log \in Seq(Entry)
      /\ file \in Seq(Record) /\ Len(log) = Len(file)
  BY DEF EncodeTypeOK
<1>2. ASSUME NEW c \in Chunk, NEW h \in HashesOf(c), NEW r, NEW size \in Nat,
             Take(c, h, r, size)
      PROVE  FirstPacket'
  <2> DEFINE e == NewEntry(c, h, size)
  <2>1. /\ index' = index + 1 /\ packet' = packet /\ log' = Append(log, e)
    BY <1>2 DEF Take, WriteRecord
  <2>2. e \in Entry
    <3>1. Consumed(Len(log)) \in Nat
      BY <1>1, EncodeAssumption, Totals
    <3> QED
      BY <1>1, <3>1, HashType DEF Entry, NewEntry, EncodeTypeOK
  <2>3. e.packet = packet /\ e.index = index
    BY NewFields
  <2> HIDE DEF e
  <2>4. /\ Len(log') = Len(log) + 1 /\ Len(log) \in Nat
        /\ log'[Len(log) + 1] = e
        /\ \A k \in 1 .. Len(log) : log'[k] = log[k]
    BY <1>1, <2>1, <2>2
  <2> QED
    BY <1>1, <2>1, <2>3, <2>4 DEF FirstPacket
<1>3. CASE EncodeLiteral
  <2>1. \A c \in Chunk : \A outlen \in PackedLengths[c] : HEADER_SIZE + outlen \in Nat
    BY EncodeAssumption DEF EncodeAssumption, HEADER_SIZE
  <2> QED
    BY <1>2, <1>3, <2>1, Zenon DEF EncodeLiteral
<1>4. CASE EncodeReference
  <2>1. HEADER_SIZE \in Nat
    BY DEF HEADER_SIZE
  <2> QED
    BY <1>2, <1>4, <2>1, Zenon DEF EncodeReference
<1>5. CASE NextPacket \/ LastPacket
  BY <1>1, <1>5 DEF NextPacket, LastPacket, EncodeReturns, FirstPacket
<1>6. CASE UNCHANGED encodeVars
  BY <1>6 DEF encodeVars, FirstPacket
<1> QED
  BY <1>3, <1>4, <1>5, <1>6, Zenon DEF EncodeStep

\* A literal of the first packet that only literals precede has as many of
\* them before it as its position says.
LEMMA PlaceInFirstPacket ==
  ASSUME EncodeTypeOK, FirstPacket, NEW m \in Literals,
         log[m].packet = 1, \A j \in References : j > m
  PROVE  log[m].index = PlaceOf(m)
<1>1. /\ m \in 1 .. Len(file) /\ Len(file) \in Nat /\ Len(log) = Len(file)
      /\ Literals \cup References = 1 .. Len(file)
  BY KindsOfRecords DEF EncodeTypeOK
<1>2. log[m].index = m - 1
  BY <1>1 DEF FirstPacket
<1>3. ASSUME NEW j \in 1 .. m - 1
      PROVE  j \in Literals
  BY <1>1
<1>4. { j \in Literals : j < m } = 1 .. m - 1
  BY <1>1, <1>3
<1>5. Cardinality(1 .. m - 1) = m - 1
  BY <1>1, FS_Interval
<1> QED
  BY <1>2, <1>4, <1>5 DEF PlaceOf

\* Whatever comes later, references to the literals at the start of the first
\* packet name the place where the decoder keeps them.
THEOREM FirstPacketDecodes == ArchiveSpec => []FirstPacketPlaces
<1>1. ArchiveInit => FirstPacket
  BY DEF ArchiveInit, EncodeInit, FirstPacket
<1>2. ArchiveInv /\ FirstPacket /\ [ArchiveNext]_archiveVars => FirstPacket'
  <2>1. ArchiveInv => EncodeTypeOK
    BY DEF ArchiveInv, EncodeInv
  <2>2. [ArchiveNext]_archiveVars => [EncodeStep \/ LastPacket]_encodeVars
    BY Zenon DEF ArchiveNext, Encoding, WriteFile, Decoding, archiveVars
  <2> QED
    BY <2>1, <2>2, FirstPacketStep
<1>3. ArchiveInv /\ FirstPacket => FirstPacketPlaces
  <2> SUFFICES ASSUME ArchiveInv, FirstPacket, NEW m \in Literals,
                      log[m].packet = 1, \A j \in References : j > m
               PROVE  /\ log[m].index = PlaceOf(m)
                      /\ written /\ records >= m
                           => Chunks[log[m].index + 1].chunk = log[m].chunk
    BY Zenon DEF FirstPacketPlaces
  <2>1. EncodeTypeOK /\ DecodeInv
    BY DEF ArchiveInv, EncodeInv
  <2>2. log[m].index = PlaceOf(m)
    BY <2>1, PlaceInFirstPacket
  <2>3. ASSUME records >= m
        PROVE  Chunks[PlaceOf(m) + 1].chunk = log[m].chunk
    <3>1. m \in 1 .. Len(file) /\ records \in Nat /\ Len(file) \in Nat
      BY <2>1, KindsOfRecords DEF DecodeInv, EncodeTypeOK
    <3>2. m \in LiteralsRead
      BY <2>3, <3>1 DEF LiteralsRead
    <3>3. Chunks[PlaceOf(m) + 1] = Piece(m)
      BY <2>1, <3>2 DEF DecodeInv
    <3>4. Piece(m).chunk = log[m].chunk
      BY DEF Piece
    <3> QED
      BY <3>3, <3>4, Zenon
  <2> QED
    BY <2>2, <2>3, Zenon
<1> QED
  BY <1>1, <1>2, <1>3, ArchiveInvariant, PTL DEF ArchiveSpec
-----------------------------------------------------------------------------
(* Where the records are in the output.                                    *)

Placed ==
  /\ \A k \in 1 .. Len(log) : log[k].at = Behind(k - 1)
  /\ \A k \in 1 .. Len(log) : Behind(k) <= 6 * Consumed(k)
  /\ written => offset = Behind(Len(log))
  /\ ~written => offset + outlength = Behind(Len(log))

LEMMA TakePlaces ==
  ASSUME EncodeTypeOK, Placed, written = FALSE, written' = FALSE,
         NEW c \in Chunk, NEW h \in HashesOf(c), NEW r,
         NEW size \in Nat, size <= 6 * ChunkLength[c], Take(c, h, r, size)
  PROVE  Placed'
<1>0. PICK n \in Nat : n = Len(log)
  BY DEF EncodeTypeOK
<1> DEFINE e == NewEntry(c, h, size)
<1>1. /\ outlength' = outlength + size /\ offset' = offset /\ log' = Append(log, e)
  BY DEF Take, WriteRecord
<1>2. /\ log \in Seq(Entry) /\ n \in Nat /\ packet \in Nat /\ index \in Nat
      /\ outlength \in Nat /\ offset \in Nat /\ n \in 0 .. n
  BY DEF EncodeTypeOK
<1>3. \A k \in 0 .. n : Behind(k) \in Nat /\ Consumed(k) \in Nat
  BY <1>0, EncodeAssumption, Totals
<1>4. e \in Entry
  BY <1>0, <1>2, <1>3, HashType DEF Entry, NewEntry
<1>5. /\ e.chunk = c /\ e.at = offset + outlength /\ e.size = size /\ e.from = Consumed(n)
  BY <1>0, NewFields
<1> HIDE DEF e
<1>6. Len(log') = n + 1 /\ log'[n + 1] = e /\ \A k \in 1 .. n : log'[k] = log[k]
  BY <1>0, <1>1, <1>2, <1>4
<1>7. \A k \in 0 .. n : Behind(k)' = Behind(k) /\ Consumed(k)' = Consumed(k)
  <2>1. \A k \in 0 .. n : k = 0 \/ k \in 1 .. n
    BY <1>2
  <2> QED
    BY <1>6, <2>1 DEF Behind, Consumed
<1>8. offset + outlength = Behind(n)
  BY <1>0 DEF Placed
<1>9. /\ Behind(n + 1)' = Behind(n) + size
      /\ Consumed(n + 1)' = Consumed(n) + ChunkLength[c]
  <2>1. n + 1 # 0
    BY <1>2
  <2> QED
    BY <1>5, <1>6, <1>8, <2>1 DEF Behind, Consumed
<1>10. ChunkLength[c] \in Nat
  BY EncodeAssumption DEF EncodeAssumption
<1>11. Behind(n) <= 6 * Consumed(n)
  <2>1. CASE n = 0
    BY <2>1 DEF Behind, Consumed
  <2>2. CASE n # 0
    <3>1. n \in 1 .. Len(log)
      BY <1>0, <1>2, <2>2
    <3> QED
      BY <3>1 DEF Placed
  <2> QED
    BY <2>1, <2>2
<1>12. ASSUME NEW k \in 1 .. n + 1
       PROVE  log'[k].at = Behind(k - 1)' /\ Behind(k)' <= 6 * Consumed(k)'
  <2>1. CASE k \in 1 .. n
    <3>1. log[k].at = Behind(k - 1) /\ Behind(k) <= 6 * Consumed(k)
      BY <1>0, <2>1 DEF Placed
    <3>2. k \in 0 .. n /\ k - 1 \in 0 .. n
      BY <1>2, <2>1
    <3> QED
      BY <1>6, <1>7, <2>1, <3>1, <3>2
  <2>2. CASE k = n + 1
    <3>1. k - 1 = n /\ n \in 0 .. n
      BY <1>2, <2>2
    <3>2. log'[k].at = Behind(k - 1)'
      BY <1>5, <1>6, <1>7, <1>8, <2>2, <3>1
    <3>3. Behind(n) + size <= 6 * (Consumed(n) + ChunkLength[c])
      BY <1>3, <1>10, <1>11, <3>1
    <3> QED
      BY <1>9, <2>2, <3>2, <3>3
  <2> QED
    BY <1>2, <2>1, <2>2
<1>13. (offset + outlength)' = Behind(n + 1)'
  BY <1>1, <1>2, <1>3, <1>8, <1>9
<1> QED
  BY <1>6, <1>12, <1>13 DEF Placed

LEMMA PlacedInit == ArchiveInit => Placed
<1> SUFFICES ASSUME ArchiveInit PROVE Placed
  OBVIOUS
<1>1. log = << >> /\ outlength = 0 /\ offset = 0 /\ written = FALSE
  BY Zenon DEF ArchiveInit, EncodeInit
<1> QED
  BY <1>1 DEF Placed, Behind

LEMMA PlacedStep == ArchiveInv /\ Placed /\ [ArchiveNext]_archiveVars => Placed'
<1> SUFFICES ASSUME ArchiveInv, Placed, [ArchiveNext]_archiveVars PROVE Placed'
  OBVIOUS
<1>1. EncodeTypeOK /\ written \in BOOLEAN
  BY DEF ArchiveInv, EncodeInv, DecodeInv
<1>2. outlength \in Nat /\ offset \in Nat
  BY <1>1 DEF EncodeTypeOK
<1>3. CASE Encoding
  <2>1. written = FALSE /\ written' = FALSE
    BY <1>1, <1>3, Zenon DEF Encoding
  <2>2. CASE EncodeLiteral
    <3>1. PICK c \in Chunk : \E h \in HashesOf(c), outlen \in PackedLengths[c] :
            Take(c, h, Literal(c), HEADER_SIZE + outlen)
      BY <2>2, Zenon DEF EncodeLiteral
    <3>2. PICK h \in HashesOf(c) : \E outlen \in PackedLengths[c] :
            Take(c, h, Literal(c), HEADER_SIZE + outlen)
      BY <3>1
    <3>3. PICK outlen \in PackedLengths[c] : Take(c, h, Literal(c), HEADER_SIZE + outlen)
      BY <3>2
    <3> DEFINE size == HEADER_SIZE + outlen
    <3>4. size \in Nat /\ size <= 6 * ChunkLength[c]
      <4>1. /\ outlen \in Nat /\ outlen <= 2 * ChunkLength[c]
            /\ ChunkLength[c] \in Nat \ {0}
        BY EncodeAssumption DEF EncodeAssumption
      <4> QED
        BY <4>1 DEF HEADER_SIZE
    <3>5. Take(c, h, Literal(c), size)
      BY <3>3
    <3> HIDE DEF size
    <3> QED
      BY <1>1, <2>1, <3>4, <3>5, TakePlaces
  <2>3. CASE EncodeReference
    <3>1. PICK c \in Chunk : \E h \in HashesOf(c) : \E r : Take(c, h, r, HEADER_SIZE)
      BY <2>3, Zenon DEF EncodeReference
    <3>2. PICK h \in HashesOf(c) : \E r : Take(c, h, r, HEADER_SIZE)
      BY <3>1
    <3>3. PICK r : Take(c, h, r, HEADER_SIZE)
      BY <3>2
    <3>4. HEADER_SIZE \in Nat /\ HEADER_SIZE <= 6 * ChunkLength[c]
      <4>1. ChunkLength[c] \in Nat \ {0}
        BY EncodeAssumption DEF EncodeAssumption
      <4> QED
        BY <4>1 DEF HEADER_SIZE
    <3> QED
      BY <1>1, <2>1, <3>3, <3>4, TakePlaces
  <2>4. CASE NextPacket
    <3>1. /\ log' = log /\ offset' = offset + outlength /\ outlength' = 0
      BY <2>4 DEF NextPacket, EncodeReturns
    <3>2. /\ \A k : Behind(k)' = Behind(k) /\ Consumed(k)' = Consumed(k)
      BY <3>1 DEF Behind, Consumed
    <3>3. (offset + outlength)' = Behind(Len(log))
      BY <1>2, <2>1, <3>1 DEF Placed
    <3> QED
      BY <2>1, <3>1, <3>2, <3>3 DEF Placed
  <2> QED
    BY <1>3, <2>2, <2>3, <2>4 DEF Encoding, EncodeStep
<1>4. CASE WriteFile
  <2>1. /\ log' = log /\ offset' = offset + outlength /\ written = FALSE /\ written' = TRUE
    BY <1>1, <1>4, Zenon DEF WriteFile, LastPacket, EncodeReturns
  <2>2. /\ \A k : Behind(k)' = Behind(k) /\ Consumed(k)' = Consumed(k)
    BY <2>1 DEF Behind, Consumed
  <2> QED
    BY <2>1, <2>2 DEF Placed
<1>5. CASE Decoding \/ UNCHANGED archiveVars
  <2>1. UNCHANGED << log, offset, outlength, written >>
    BY <1>5, Zenon DEF Decoding, archiveVars, encodeVars
  <2>2. /\ \A k : Behind(k)' = Behind(k) /\ Consumed(k)' = Consumed(k)
    BY <2>1 DEF Behind, Consumed
  <2> QED
    BY <2>1, <2>2 DEF Placed
<1> QED
  BY <1>3, <1>4, <1>5 DEF ArchiveNext

LEMMA PlacedInvariant == ArchiveSpec => []Placed
  BY PlacedInit, PlacedStep, ArchiveInvariant, PTL DEF ArchiveSpec

\* The records are one behind the other in the output, and all of it is written:
\* for any lengths of chunks and literals and any number of packets.
THEOREM RecordsAreAdjacent == ArchiveSpec => []RecordsAdjoin
<1>1. Placed => RecordsAdjoin
  BY DEF Placed, RecordsAdjoin
<1> QED
  BY <1>1, PlacedInvariant, PTL

\* The output is never longer than six times the input so far.
THEOREM SixfoldIsEnough == ArchiveSpec => []AtMostSixfold
<1>1. Placed => AtMostSixfold
  BY DEF Placed, AtMostSixfold
<1> QED
  BY <1>1, PlacedInvariant, PTL
-----------------------------------------------------------------------------
(* What a zero byte spoils.                                                *)

HasZero(k) == ZeroIn[log[k].chunk] # "never"

CutByZero ==
  /\ \A k \in 1 .. Len(log) : log[k].packet <= packet
  /\ cut <=> \E j \in 1 .. Len(log) : log[j].packet = packet /\ HasZero(j)
  /\ SpoiltInOnePacket

\* Taking a chunk: the string is cut behind it if it has a zero byte, and its
\* literal is whole if the string was not cut and the chunk is harmless.
LEMMA TakeSpoils ==
  ASSUME EncodeTypeOK, CutByZero,
         NEW c \in Chunk, NEW h \in HashesOf(c), NEW r \in Record,
         NEW size \in Nat, Take(c, h, r, size),
         r.kind = "literal" => r = Literal(c)
  PROVE  CutByZero'
<1>0. PICK n \in Nat : n = Len(file)
  BY DEF EncodeTypeOK
<1>1. /\ Len(log) = n /\ packet \in Nat /\ cut \in BOOLEAN
  BY <1>0 DEF EncodeTypeOK
<1>2. /\ Len(file') = n + 1 /\ Len(log') = n + 1
      /\ file'[n + 1] = r
      /\ log'[n + 1].chunk = c /\ log'[n + 1].packet = packet
      /\ \A k \in 1 .. n : file'[k] = file[k] /\ log'[k] = log[k]
  BY <1>0, TakeAppends, NewFields
<1>3. packet' = packet /\ (cut' <=> cut \/ ZeroIn[c] # "never")
  BY Zenon DEF Take, WriteRecord
<1>4. /\ \A k \in 1 .. n : HasZero(k)' <=> HasZero(k)
      /\ HasZero(n + 1)' <=> ZeroIn[c] # "never"
  BY <1>2 DEF HasZero
<1>5. \A k : k \in 1 .. n + 1 <=> k \in 1 .. n \/ k = n + 1
  BY <1>1
<1>6. \A k \in 1 .. Len(log') : log'[k].packet <= packet'
  <2>1. \A k \in 1 .. n : log[k].packet <= packet
    BY <1>1 DEF CutByZero
  <2> QED
    BY <1>1, <1>2, <1>3, <1>5, <2>1
<1>7. cut <=> \E j \in 1 .. n : log[j].packet = packet /\ HasZero(j)
  BY <1>1, Zenon DEF CutByZero
<1>8. cut' <=> \E j \in 1 .. Len(log') : log'[j].packet = packet' /\ HasZero(j)'
  <2>1. ASSUME cut' PROVE \E j \in 1 .. n + 1 : log'[j].packet = packet' /\ HasZero(j)'
    <3>1. CASE cut
      <4>1. PICK j \in 1 .. n : log[j].packet = packet /\ HasZero(j)
        BY <1>7, <3>1, Zenon
      <4> QED
        BY <1>2, <1>3, <1>4, <1>5, <4>1, Zenon
    <3>2. CASE ZeroIn[c] # "never"
      BY <1>2, <1>3, <1>4, <1>5, <3>2, Zenon
    <3> QED
      BY <1>3, <2>1, <3>1, <3>2, Zenon
  <2>2. ASSUME NEW j \in 1 .. n + 1, log'[j].packet = packet', HasZero(j)' PROVE cut'
    <3>1. CASE j \in 1 .. n
      BY <1>2, <1>3, <1>4, <1>7, <2>2, <3>1, Zenon
    <3>2. CASE j = n + 1
      BY <1>3, <1>4, <2>2, <3>2, Zenon
    <3> QED
      BY <1>5, <3>1, <3>2
  <2> QED
    BY <1>2, <2>1, <2>2, Zenon
<1>9. ASSUME NEW k \in Literals'
      PROVE  file'[k].intact <=> /\ ~ZeroBefore(k)'
                                 /\ ZeroIn[log'[k].chunk] # "inside"
                                 /\ log'[k].chunk \notin TooLong
  <2>1. k \in 1 .. n + 1 /\ file'[k].kind = "literal"
    BY <1>2, <1>9 DEF Literals
  <2>2. ZeroBefore(k)' <=> \E j \in 1 .. k - 1 : log'[j].packet = log'[k].packet /\ HasZero(j)'
    BY DEF ZeroBefore, HasZero
  <2>3. CASE k \in 1 .. n
    <3>1. \A j \in 1 .. k - 1 : j \in 1 .. n
      BY <2>3
    <3>2. ZeroBefore(k)' <=> ZeroBefore(k)
      BY <1>2, <2>3, <3>1 DEF ZeroBefore
    <3>3. k \in Literals
      BY <1>0, <1>2, <2>1, <2>3 DEF Literals
    <3>4. file[k].intact <=> /\ ~ZeroBefore(k)
                             /\ ZeroIn[log[k].chunk] # "inside"
                             /\ log[k].chunk \notin TooLong
      BY <3>3, Zenon DEF CutByZero, SpoiltInOnePacket
    <3> QED
      BY <1>2, <2>3, <3>2, <3>4, Zenon
  <2>4. CASE k = n + 1
    <3>1. r = Literal(c) /\ file'[k] = Literal(c)
      BY <1>2, <2>1, <2>4, Zenon
    <3>2. file'[k].intact <=> ~cut /\ ZeroIn[c] # "inside" /\ c \notin TooLong
      <4>1. Literal(c).intact = Intact(c)
        BY DEF Literal
      <4>2. Intact(c) <=> ~cut /\ ZeroIn[c] # "inside" /\ c \notin TooLong
        BY Zenon DEF Intact, Damaged
      <4> HIDE DEF Literal
      <4> QED
        BY <3>1, <4>1, <4>2, Zenon
    <3>3. k - 1 = n
      BY <2>4
    <3>4. ZeroBefore(k)' <=> \E j \in 1 .. n : log'[j].packet = packet /\ HasZero(j)'
      BY <1>2, <2>2, <2>4, <3>3, Zenon
    <3>5. ZeroBefore(k)' <=> cut
      BY <1>2, <1>4, <1>7, <3>4, Zenon
    <3> QED
      BY <1>2, <2>4, <3>2, <3>5, Zenon
  <2> QED
    BY <1>5, <2>1, <2>3, <2>4
<1> QED
  BY <1>6, <1>8, <1>9, Zenon DEF CutByZero, SpoiltInOnePacket

LEMMA CutByZeroStep ==
  ASSUME EncodeTypeOK, CutByZero, [EncodeStep \/ LastPacket]_encodeVars
  PROVE  CutByZero'
<1>1. packet \in Nat /\ umap \in [ HASH -> Nat ] /\ \A k \in 1 .. Len(log) : log[k].packet \in Nat
  <2>1. \A k \in 1 .. Len(log) : log[k] \in Entry
    BY DEF EncodeTypeOK
  <2> QED
    BY <2>1 DEF EncodeTypeOK, Entry
<1>2. CASE EncodeLiteral
  <2>1. PICK c \in Chunk : \E h \in HashesOf(c), outlen \in PackedLengths[c] :
          Take(c, h, Literal(c), HEADER_SIZE + outlen)
    BY <1>2, Zenon DEF EncodeLiteral
  <2>2. PICK h \in HashesOf(c) : \E outlen \in PackedLengths[c] :
          Take(c, h, Literal(c), HEADER_SIZE + outlen)
    BY <2>1
  <2>3. PICK outlen \in PackedLengths[c] : Take(c, h, Literal(c), HEADER_SIZE + outlen)
    BY <2>2
  <2>4. HEADER_SIZE + outlen \in Nat
    BY EncodeAssumption DEF EncodeAssumption, HEADER_SIZE
  <2>5. Literal(c) \in Record
    BY <2>3, <2>4, LiteralAppended
  <2> QED
    BY <2>3, <2>4, <2>5, TakeSpoils
<1>3. CASE EncodeReference
  <2>1. PICK c \in Chunk : \E h \in HashesOf(c) :
          umap[h] # 0 /\ Take(c, h, Reference(umap[h] - 1), HEADER_SIZE)
    BY <1>3, Zenon DEF EncodeReference
  <2>2. PICK h \in HashesOf(c) :
          umap[h] # 0 /\ Take(c, h, Reference(umap[h] - 1), HEADER_SIZE)
    BY <2>1
  <2>3. PICK id \in Nat : id = umap[h] - 1
    BY <1>1, <2>2, HashType
  <2>4. HEADER_SIZE \in Nat
    BY DEF HEADER_SIZE
  <2>5. Reference(id) \in Record /\ Reference(id).kind # "literal"
    BY DEF Record, Reference
  <2> QED
    BY <2>2, <2>3, <2>4, <2>5, TakeSpoils
<1>4. CASE NextPacket
  <2>1. /\ log' = log /\ file' = file /\ packet' = packet + 1 /\ cut' = FALSE
    BY <1>4 DEF NextPacket, EncodeReturns
  <2>2. SpoiltInOnePacket'
    BY <2>1 DEF CutByZero, SpoiltInOnePacket, Literals, ZeroBefore
  <2>3. \A k \in 1 .. Len(log') : log'[k].packet <= packet' /\ log'[k].packet # packet'
    BY <1>1, <2>1 DEF CutByZero
  <2> QED
    BY <2>1, <2>2, <2>3, Zenon DEF CutByZero
<1>5. CASE LastPacket \/ UNCHANGED encodeVars
  <2>1. UNCHANGED << log, file, packet, cut >>
    BY <1>5 DEF LastPacket, EncodeReturns, encodeVars
  <2> QED
    BY <2>1 DEF CutByZero, HasZero, SpoiltInOnePacket, Literals, ZeroBefore
<1> QED
  BY <1>2, <1>3, <1>4, <1>5 DEF EncodeStep

\* A zero byte spoils the literals behind it in its packet, and no others, for
\* any packets.
THEOREM ZerosSpoilOnePacket == ArchiveSpec => []SpoiltInOnePacket
<1>1. ArchiveInit => CutByZero
  <2> SUFFICES ASSUME ArchiveInit PROVE CutByZero
    OBVIOUS
  <2>1. log = << >> /\ file = << >> /\ cut = FALSE
    BY Zenon DEF ArchiveInit, EncodeInit
  <2>2. Len(log) = 0 /\ Literals = {} /\ 1 .. Len(log) = {}
    BY <2>1 DEF Literals
  <2> QED
    BY <2>1, <2>2, Zenon DEF CutByZero, SpoiltInOnePacket
<1>2. ArchiveInv /\ CutByZero /\ [ArchiveNext]_archiveVars => CutByZero'
  <2>1. ArchiveInv => EncodeTypeOK
    BY DEF ArchiveInv, EncodeInv
  <2>2. [ArchiveNext]_archiveVars => [EncodeStep \/ LastPacket]_encodeVars
    BY Zenon DEF ArchiveNext, Encoding, WriteFile, Decoding, archiveVars
  <2> QED
    BY <2>1, <2>2, CutByZeroStep
<1>3. CutByZero => SpoiltInOnePacket
  BY DEF CutByZero
<1> QED
  BY <1>1, <1>2, <1>3, ArchiveInvariant, PTL DEF ArchiveSpec

-----------------------------------------------------------------------------
(* What the documented promises that do not hold would give.               *)

\* A reference carries the index of a unique chunk exactly if its literal is
\* where the decoder looks for it.
LEMMA UniqueIndexIsPlace ==
  ASSUME EncodeInv
  PROVE  IdIsUniqueIndex <=> \A k \in References : ~Misplaced(k)
<1>1. ASSUME NEW k \in References
      PROVE  /\ LiteralFor(k) \in Literals
             /\ log[LiteralFor(k)].hash = log[k].hash
             /\ file[k].id = log[LiteralFor(k)].index
  <2>1. PICK m \in Literals : log[m].hash = log[k].hash /\ file[k].id = log[m].index
    BY Zenon DEF EncodeInv, ReferenceNamesPosition
  <2>2. /\ LiteralFor(k) \in Literals /\ log[LiteralFor(k)].hash = log[k].hash
    BY <2>1, Zenon DEF LiteralFor
  <2>3. LiteralFor(k) = m
    BY <2>1, <2>2, Zenon DEF EncodeInv, OneLiteralPerHash
  <2> QED
    BY <2>1, <2>2, <2>3, Zenon
<1>2. ASSUME NEW k \in References
      PROVE  ~Misplaced(k) <=>
               file[k].id = Cardinality({ m \in Literals : m < LiteralFor(k) })
  BY <1>1, Zenon DEF Misplaced, PlaceOf
<1> QED
  BY <1>2, Zenon DEF IdIsUniqueIndex

\* If the number in every reference were the index of a unique chunk, as
\* encode_parts.h has it, and every literal held its chunk, as host.cpp has it,
\* the decoder would restore every chunk whose digest is not mistaken: the two
\* broken promises are all that stands in the way.
THEOREM PromisesRestore ==
  ArchiveSpec =>
    [](IdIsUniqueIndex /\ LiteralsAreIntact =>
         \A k \in 1 .. Len(Output) :
           Output[k] = << [ chunk |-> log[k].chunk, intact |-> TRUE ] >> \/ Mistaken(k))
<1>1. ArchiveInv =>
        (IdIsUniqueIndex /\ LiteralsAreIntact =>
           \A k \in 1 .. Len(Output) :
             Output[k] = << [ chunk |-> log[k].chunk, intact |-> TRUE ] >> \/ Mistaken(k))
  <2> SUFFICES ASSUME ArchiveInv, IdIsUniqueIndex, LiteralsAreIntact,
                      NEW k \in 1 .. Len(Output), ~Mistaken(k)
               PROVE  Output[k] = << [ chunk |-> log[k].chunk, intact |-> TRUE ] >>
    BY Zenon
  <2>1. EncodeInv /\ DecodeInv /\ EncodeTypeOK
    BY DEF ArchiveInv, EncodeInv
  <2>2. ~Misplaced(k)
    BY <2>1, UniqueIndexIsPlace, Zenon DEF Misplaced
  <2>3. ~Spoilt(k)
    <3>1. k \in 1 .. Len(file)
      <4>1. archive = file \/ archive = << >>
        BY <2>1, Zenon DEF DecodeInv
      <4>2. Len(Output) = records /\ records \in Nat /\ records <= Len(archive) /\ Len(file) \in Nat
        BY <2>1 DEF DecodeInv, EncodeTypeOK
      <4> QED
        BY <4>1, <4>2
    <3>2. k \in Literals \/ k \in References
      BY <2>1, <3>1, KindsOfRecords
    <3>3. \E m \in Literals : log[m].hash = log[k].hash
      BY <2>1, <3>2, Zenon DEF EncodeInv, ReferenceNamesPosition
    <3>4. LiteralFor(k) \in Literals
      BY <3>3, Zenon DEF LiteralFor
    <3> QED
      BY <3>4, Zenon DEF Spoilt, LiteralsAreIntact
  <2>4. DecodesUnlessKnownCause
    BY OutputExplained
  <2> QED
    BY <2>2, <2>3, <2>4, Zenon DEF DecodesUnlessKnownCause
<1> QED
  BY <1>1, ArchiveInvariant, PTL
=============================================================================
