----------------------------- MODULE MCArchive -----------------------------
(* Instances of Archive for TLC. *)
EXTENDS Archive, TLC

CONSTANTS a, b, c, d

\* The digests of a and b agree up to a zero byte; c has a zero byte inside and
\* d ends with one.  The digest of d has no zero byte.
MCChunk == {a, b, c, d}
MCDigestOf == a :> <<1, 0, 1>> @@ b :> <<1, 0, 2>> @@ c :> <<2, 1, 0>> @@ d :> <<2, 1, 1>>
MCZeroIn == a :> "never" @@ b :> "never" @@ c :> "inside" @@ d :> "last"
\* One of the two chunks that are mistaken for each other is too long.
MCTooLong == {b}
MCChunkLength == a :> 1 @@ b :> 3 @@ c :> 2 @@ d :> 1
MCPackedLengths == a :> {2} @@ b :> {4, 5} @@ c :> {4} @@ d :> {2}
MCStackTails == { << >>, <<1>> }
=============================================================================
