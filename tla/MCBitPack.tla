----------------------------- MODULE MCBitPack -----------------------------
(* Instances of BitPack for TLC. *)
EXTENDS BitPack

\* Every other bit, the bits between them, and all of them: any bit that is
\* lost, moved or shared with a neighbour shows in one of the three.
MCCode == { {0, 2, 4, 6, 8, 10, 12}, {1, 3, 5, 7, 9, 11}, 0 .. 12 }
=============================================================================
