------------------------------ MODULE MCCodec ------------------------------
(* Instances of Codec for TLC. *)
EXTENDS Codec, SequencesExt

\* Chunks up to one byte longer than the safe length of the configuration.
MCChunks == BoundedSeq(Char, MAX_CHUNK_LEN) \ {<< >>}
=============================================================================
