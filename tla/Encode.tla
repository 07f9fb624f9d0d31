------------------------------- MODULE Encode -------------------------------
(***************************************************************************)
(* encode() (Server/host.cpp, repeated in Server/encoder.cpp) with SHA_HW  *)
(* and deduplication (Server/encode_parts.cpp): each chunk of a packet     *)
(* becomes one record of the archive, a literal the first time its hash is *)
(* seen and a reference afterwards.                                        *)
(*                                                                         *)
(* A chunk is an opaque value.  What the code can tell about it is given   *)
(* by constants: its digest, and where its first zero byte is, because     *)
(* both the digest and the packet are turned into C++ strings as if they   *)
(* were C strings; and whether it is too long for LZW (Lzw says when).     *)
(* Where packets are cut into chunks is Cdc's subject; here any chunk may  *)
(* come next.                                                              *)
(***************************************************************************)
EXTENDS Integers, Sequences, FiniteSets

CONSTANTS
  Chunk,       \* the contents a chunk can have
  HASH_SIZE,   \* length of a digest
  DigestOf,    \* the digest of each chunk, a sequence of HASH_SIZE bytes
  StackTails,  \* what may lie between a digest and the next zero byte in memory
  ZeroIn,      \* per chunk: does its first zero byte come "inside", "last", "never"
  TooLong,     \* chunks that give LZW more codes than its masks let through
  ChunkLength, \* the bytes of each chunk
  PackedLengths, \* how many bytes LZW may make of it (BitPack: twice as many at most)
  MAX_CHUNKS   \* bound on the chunks of a transfer

ASSUME EncodeAssumption ==
  /\ HASH_SIZE \in Nat
  /\ DigestOf \in [ Chunk -> Seq(Nat) ]
  /\ \A c \in Chunk : Len(DigestOf[c]) = HASH_SIZE
  /\ \A c, d \in Chunk : DigestOf[c] = DigestOf[d] => c = d
  /\ StackTails \subseteq Seq(Nat \ {0})
  /\ ZeroIn \in [ Chunk -> {"inside", "last", "never"} ]
  /\ TooLong \subseteq Chunk
  /\ ChunkLength \in [ Chunk -> Nat \ {0} ]
  /\ PackedLengths \in [ Chunk -> SUBSET Nat ]
  /\ \A c \in Chunk : \A n \in PackedLengths[c] : n <= 2 * ChunkLength[c]
  /\ MAX_CHUNKS \in Nat

VARIABLES
  packet,   \* number of the packet being encoded
  index,    \* encode(): chunks of this packet taken so far
  cut,      \* the C string s_packet has ended before the next chunk
  outlength, \* encode(): bytes written for this packet
  offset,   \* main: bytes written for the packets before, where this one starts
  umap,     \* deduplication(): hash -> chunk index + 1, 0 when absent
  file,     \* the records in the output buffer
  log       \* per record, the chunk it was made from and the circumstances

encodeVars == << packet, index, cut, outlength, offset, umap, file, log >>

Zeros(digest) == { i \in 1 .. Len(digest) : digest[i] = 0 }

FirstZero(digest) ==
  CHOOSE i \in Zeros(digest) : \A j \in Zeros(digest) : i <= j

\* A wrong form: the last byte of the digest overwritten by a terminator.
HashesOf_Terminated(c) ==
  { SubSeq(DigestOf[c], 1, HASH_SIZE - 1) }

\* SHA_HW: "*digest_hash = digest" assigns a char array to a std::string, which
\* takes what comes before the first zero byte, be it in the digest or after.
HashesOf(c) ==
  LET digest == DigestOf[c]
  IN  IF Zeros(digest) # {}
        THEN { SubSeq(digest, 1, FirstZero(digest) - 1) }
        ELSE { digest \o tail : tail \in StackTails }

HASH == UNION { HashesOf(c) : c \in Chunk }

EncodeInit ==
  /\ packet = 1
  /\ index = 0
  /\ cut = FALSE
  /\ outlength = 0
  /\ offset = 0
  /\ umap = [ h \in HASH |-> 0 ]
  /\ file = << >>
  /\ log = << >>

\* LZW reads the chunk from s_packet, at the positions it has in the packet:
\* past the end of that string it reads whatever memory holds.
Damaged(c) == cut \/ ZeroIn[c] = "inside"

\* A literal holds the chunk if LZW read the chunk and had codes enough for it.
Intact(c) == ~Damaged(c) /\ c \notin TooLong

Literal(c) == [ kind |-> "literal", chunk |-> c, intact |-> Intact(c) ]

\* Wrong forms: one too few and one too many.
Reference_OneLess(id) == [ kind |-> "reference", id |-> id - 1 ]
Reference_NotLowered(id) == [ kind |-> "reference", id |-> id + 1 ]

Reference(id) == [ kind |-> "reference", id |-> id ]

HEADER_SIZE == 4

\* The bytes of the chunks taken so far, and those of the records written.
Behind(k)   == IF k = 0 THEN 0 ELSE log[k].at + log[k].size
Consumed(k) == IF k = 0 THEN 0 ELSE log[k].from + ChunkLength[log[k].chunk]

\* What is known of the record that is written next.
NewEntry(c, h, size) ==
  [ chunk |-> c, hash |-> h, packet |-> packet, index |-> index,
    at |-> offset + outlength, size |-> size, from |-> Consumed(Len(log)) ]

WriteRecord(c, h, r, size, step) ==
  /\ Len(log) < MAX_CHUNKS
  /\ index' = index + step
  /\ cut' = (cut \/ ZeroIn[c] # "never")
  /\ outlength' = outlength + size
  /\ file' = Append(file, r)
  /\ log' = Append(log, NewEntry(c, h, size))
  /\ UNCHANGED << packet, offset >>

\* A wrong form: index incremented by the loop as well.
Take_Twice(c, h, r, size) == WriteRecord(c, h, r, size, 2)

\* Take the next chunk of the packet, whose hash is h, and write the record r of
\* size bytes.
Take(c, h, r, size) == WriteRecord(c, h, r, size, 1)

\* A wrong form: the index itself stored, so that 0 is both "first" and "absent".
Remember_Index(h) == umap' = [ umap EXCEPT ![h] = index ]

Remember(h) == umap' = [ umap EXCEPT ![h] = index + 1 ]

\* deduplication finds no index: it stores this one, and the chunk is compressed.
EncodeLiteral ==
  \E c \in Chunk : \E h \in HashesOf(c), outlen \in PackedLengths[c] :
    /\ umap[h] = 0
    /\ Remember(h)
    /\ Take(c, h, Literal(c), HEADER_SIZE + outlen)

\* deduplication finds an index: a header that refers to it is all that is written.
EncodeReference ==
  \E c \in Chunk : \E h \in HashesOf(c) :
    /\ umap[h] # 0
    /\ Take(c, h, Reference(umap[h] - 1), HEADER_SIZE)
    /\ UNCHANGED umap

\* encode() returns, and main adds what it wrote.
EncodeReturns ==
  /\ index > 0
  /\ offset' = offset + outlength
  /\ UNCHANGED << umap, file, log >>

\* Wrong forms: *outlength not reset, while output_length in main lives on; and
\* the string of the packet before kept.
NextPacket_LengthKept ==
  /\ EncodeReturns
  /\ packet' = packet + 1
  /\ index' = 0
  /\ cut' = FALSE
  /\ UNCHANGED outlength

NextPacket_StringKept ==
  /\ EncodeReturns
  /\ packet' = packet + 1
  /\ index' = 0
  /\ outlength' = 0
  /\ UNCHANGED cut

\* The next call of encode(); its locals start again, the map in deduplication
\* is static and stays.
NextPacket ==
  /\ EncodeReturns
  /\ packet' = packet + 1
  /\ index' = 0
  /\ cut' = FALSE
  /\ outlength' = 0

\* The packet had the done bit: there is no other call.
LastPacket ==
  /\ EncodeReturns
  /\ UNCHANGED << packet, index, cut, outlength >>

EncodeStep == EncodeLiteral \/ EncodeReference \/ NextPacket

EncodeSpec == EncodeInit /\ [][EncodeStep]_encodeVars

-----------------------------------------------------------------------------

Literals == { k \in 1 .. Len(file) : file[k].kind = "literal" }

References == { k \in 1 .. Len(file) : file[k].kind = "reference" }

\* The literal a reference was written for.
LiteralFor(k) ==
  CHOOSE m \in Literals : log[m].hash = log[k].hash

Record ==
       [ kind : {"literal"}, chunk : Chunk, intact : BOOLEAN ]
  \cup [ kind : {"reference"}, id : Nat ]

Entry ==
  [ chunk : Chunk, hash : HASH, packet : Nat, index : Nat,
    at : Nat, size : Nat, from : Nat ]

EncodeTypeOK ==
  /\ packet \in Nat
  /\ index \in Nat
  /\ cut \in BOOLEAN
  /\ outlength \in Nat
  /\ offset \in Nat
  /\ umap \in [ HASH -> Nat ]
  /\ file \in Seq(Record)
  /\ log \in Seq(Entry)
  /\ Len(log) = Len(file)

\* A hash is compressed once in the whole transfer, however many packets it
\* occurs in.
OneLiteralPerHash ==
  \A k, m \in Literals : log[k].hash = log[m].hash => k = m

\* A reference carries the position that the literal with its hash had among
\* the chunks of the packet it came in, and that literal is already written.
\* (What it should carry is IdIsUniqueIndex below.)
ReferenceNamesPosition ==
  \A k \in References :
    \E m \in Literals :
      /\ m < k
      /\ log[m].hash = log[k].hash
      /\ file[k].id = log[m].index

\* Two different chunks are taken for the same one only when their digests
\* agree up to a zero byte in both.
SamePrefix(c, d) ==
  LET p == DigestOf[c]
      q == DigestOf[d]
  IN  \E i \in Zeros(p) \cap Zeros(q) : \A j \in 1 .. i - 1 : p[j] = q[j]

MistakenOnlyByPrefix ==
  \A k \in References :
    \A m \in Literals :
      log[m].hash = log[k].hash =>
        \/ log[m].chunk = log[k].chunk
        \/ SamePrefix(log[m].chunk, log[k].chunk)

\* What a zero byte spoils is every literal behind it in the packet it is in, and
\* nothing in any other; and a literal whose chunk is too long is spoilt always.
ZeroBefore(k) ==
  \E j \in 1 .. k - 1 : log[j].packet = log[k].packet /\ ZeroIn[log[j].chunk] # "never"
SpoiltInOnePacket ==
  \A k \in Literals :
    file[k].intact <=> /\ ~ZeroBefore(k)
                       /\ ZeroIn[log[k].chunk] # "inside"
                       /\ log[k].chunk \notin TooLong

\* The inductive invariant behind these properties: the map knows exactly the
\* hashes of the literals, with the positions the references are given.
MapKnowsLiterals ==
  /\ \A m \in Literals : umap[log[m].hash] = log[m].index + 1
  /\ \A h \in HASH : umap[h] # 0 => \E m \in Literals : log[m].hash = h

LogIsTrue ==
  \A k \in 1 .. Len(file) :
    /\ log[k].hash \in HashesOf(log[k].chunk)
    /\ file[k].kind = "literal" => file[k].chunk = log[k].chunk

EncodeInv ==
  /\ EncodeTypeOK
  /\ LogIsTrue
  /\ MapKnowsLiterals
  /\ OneLiteralPerHash
  /\ ReferenceNamesPosition

\* encode_parts.h declares CHUNK_idx_t, the type of the number in a reference,
\* as the "index of unique chunk": how many different chunks came before it.
IdIsUniqueIndex ==
  \A k \in References :
    file[k].id = Cardinality({ m \in Literals : m < LiteralFor(k) })

\* host.cpp converts the packet "to string saving in $s_packet$"; a literal
\* compressed from it holds the chunk.
LiteralsAreIntact ==
  \A k \in Literals : file[k].intact
=============================================================================
