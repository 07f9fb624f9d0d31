------------------------------ MODULE Decoder ------------------------------
(***************************************************************************)
(* Decoder/Decoder.cpp: reads the records of an archive in order, keeps    *)
(* every literal it decompresses in a list, and copies from that list for  *)
(* a reference.                                                            *)
(***************************************************************************)
EXTENDS Integers, Sequences

VARIABLES
  archive,   \* the records of the compressed file
  records,   \* how many of them have been read
  Chunks,    \* the literals decompressed so far
  Output     \* per record read, what was written for it

decoderVars == << archive, records, Chunks, Output >>

DecoderInit ==
  /\ archive = << >>
  /\ records = 0
  /\ Chunks = << >>
  /\ Output = << >>

Header == archive[records + 1]

ReadRecord(kind) ==
  /\ records < Len(archive)
  /\ Header.kind = kind
  /\ records' = records + 1
  /\ UNCHANGED archive

Decompressed == [ chunk |-> Header.chunk, intact |-> Header.intact ]

DecodeLiteral ==
  /\ ReadRecord("literal")
  /\ Chunks' = Append(Chunks, Decompressed)
  /\ Output' = Append(Output, << Decompressed >>)

\* A wrong form: a chunk that is copied takes a place in the list as well.
DecodeReference_Keeps ==
  /\ ReadRecord("reference")
  /\ Header.id < Len(Chunks)
  /\ Output' = Append(Output, << Chunks[Header.id + 1] >>)
  /\ Chunks' = Append(Chunks, Chunks[Header.id + 1])

\* The first chunk has location 0.
DecodeReference ==
  /\ ReadRecord("reference")
  /\ Header.id < Len(Chunks)
  /\ Output' = Append(Output, << Chunks[Header.id + 1] >>)
  /\ UNCHANGED Chunks

\* "ignoring block.  Likely encoder error."
IgnoreReference ==
  /\ ReadRecord("reference")
  /\ Header.id >= Len(Chunks)
  /\ Output' = Append(Output, << >>)
  /\ UNCHANGED Chunks

DecoderStep == DecodeLiteral \/ DecodeReference \/ IgnoreReference
=============================================================================
