------------------------------- MODULE Archive -------------------------------
(***************************************************************************)
(* The encoder and the decoder together.  They share the file              *)
(* output_cpu.bin, which the encoder writes in one go when the last packet *)
(* is encoded.                                                             *)
(***************************************************************************)
EXTENDS Encode, Decoder

VARIABLE written   \* the encoder has written output_cpu.bin and ended

archiveVars == << encodeVars, decoderVars, written >>

ArchiveInit == EncodeInit /\ DecoderInit /\ written = FALSE

Encoding == ~written /\ EncodeStep /\ UNCHANGED << decoderVars, written >>

\* fwrite(&file[0], 1, offset, outfd), after the packet with the done bit.
WriteFile ==
  /\ ~written
  /\ LastPacket
  /\ archive' = file
  /\ written' = TRUE
  /\ UNCHANGED << records, Chunks, Output >>

Decoding == written /\ DecoderStep /\ UNCHANGED << encodeVars, written >>

ArchiveNext == Encoding \/ WriteFile \/ Decoding

ArchiveSpec == ArchiveInit /\ [][ArchiveNext]_archiveVars

-----------------------------------------------------------------------------

\* The decoder counts literals over the whole archive: this is where it puts
\* the literal m.
PlaceOf(m) == Cardinality({ j \in Literals : j < m })

\* What the decoder makes of the literal m.
Piece(m) == [ chunk |-> log[m].chunk, intact |-> file[m].intact ]

\* Why the output for a record may differ from the chunk it was made from.
Mistaken(k)  == log[LiteralFor(k)].chunk # log[k].chunk
Spoilt(k)    == ~file[LiteralFor(k)].intact
Misplaced(k) == k \in References /\ log[LiteralFor(k)].index # PlaceOf(LiteralFor(k))

\* For every record the decoder has read, the output is the chunk that was
\* encoded, whole, unless the digest of the chunk was cut short and mistaken
\* for another, or its literal is spoilt (compressed from beyond the end of
\* s_packet, or from a chunk too long for LZW), or a reference carries a
\* position that is not the place of its literal in the decoder's list.  There
\* is no fourth reason.
DecodesUnlessKnownCause ==
  \A k \in 1 .. Len(Output) :
    \/ Output[k] = << [ chunk |-> log[k].chunk, intact |-> TRUE ] >>
    \/ Mistaken(k) \/ Spoilt(k) \/ Misplaced(k)

\* The list of the decoder is the list of literals of the encoder, in order:
\* a literal of the first packet that no reference precedes is found at the
\* position its references carry, whatever comes later.
FirstPacketPlaces ==
  \A m \in Literals :
    /\ log[m].packet = 1
    /\ \A j \in References : j > m
    => /\ log[m].index = PlaceOf(m)
       /\ written /\ records >= m => Chunks[log[m].index + 1].chunk = log[m].chunk

\* The records lie one behind the other in the output, from its first byte and
\* across the packets, and what is written is as long as they are: the decoder,
\* which is told no positions, finds one header after the other.  The length of
\* a packet's output is counted in one function, reset there, and added up in
\* another.
RecordsAdjoin ==
  /\ \A k \in 1 .. Len(log) : log[k].at = Behind(k - 1)
  /\ written => offset = Behind(Len(log))

\* The output buffer of 70,000,000 bytes is never checked.  Six times as many
\* bytes as have been encoded are enough for it: a chunk of one byte can make a
\* record of six, and nothing makes a worse one.
AtMostSixfold ==
  \A k \in 1 .. Len(log) : Behind(k) <= 6 * Consumed(k)

\* The inductive invariant of the decoder: what its list holds and what it has
\* written, in terms of the encoder's records.
LiteralsRead == { j \in Literals : j < records + 1 }

DecodeInv ==
  /\ written \in BOOLEAN
  /\ records \in Nat
  /\ archive = IF written THEN file ELSE << >>
  /\ records <= Len(archive)
  /\ Chunks \in Seq([ chunk : Chunk, intact : BOOLEAN ])
  /\ Output \in Seq(Seq([ chunk : Chunk, intact : BOOLEAN ]))
  /\ Len(Output) = records
  /\ Len(Chunks) = Cardinality(LiteralsRead)
  /\ \A m \in LiteralsRead :
       /\ PlaceOf(m) < Len(Chunks)
       /\ Chunks[PlaceOf(m) + 1] = Piece(m)
       /\ Output[m] = << Piece(m) >>
  /\ \A k \in 1 .. records, m \in Literals :
       k \in References /\ log[m].hash = log[k].hash /\ log[m].index = PlaceOf(m)
         => Output[k] = << Piece(m) >>

ArchiveInv == EncodeInv /\ DecodeInv
=============================================================================
