---------------------------- MODULE FileTransfer ----------------------------
(***************************************************************************)
(* What the client and the receive loop together promise the encoder: it   *)
(* is given the file piece by piece, from the first byte to the last and   *)
(* nothing else, and it is told to finish exactly when it has been given   *)
(* all.                                                                    *)
(***************************************************************************)
EXTENDS Integers, Sequences

CONSTANT FileSizes

VARIABLES
  file_size,   \* length of the file
  delivered,   \* the pieces given to the encoder, each the offsets of its bytes
  finished     \* the encoder has been told that this was all

vars == << file_size, delivered, finished >>

\* The bytes from one offset up to, and without, another.
Piece(from, to) == [ i \in 1 .. to - from |-> from + i - 1 ]

\* Where the next piece starts: behind the last byte of the last one.
Delivered ==
  LET last == delivered[Len(delivered)]
  IN  IF delivered = << >> THEN 0 ELSE last[Len(last)] + 1

Init ==
  /\ file_size \in FileSizes
  /\ delivered = << >>
  /\ finished = FALSE

Deliver ==
  /\ ~finished
  /\ \E to \in Delivered + 1 .. file_size :
       /\ delivered' = Append(delivered, Piece(Delivered, to))
       /\ finished' = (to = file_size)
  /\ UNCHANGED file_size

Safety == Init /\ [][Deliver]_vars

Spec == Safety /\ WF_vars(Deliver)
=============================================================================
