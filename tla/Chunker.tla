------------------------------ MODULE Chunker ------------------------------
(***************************************************************************)
(* Content-defined chunking as encode() is to see it: one chunk after the  *)
(* other is taken from the front of the rest of the packet, each up to the *)
(* first position at which the content calls for a cut, the last one up to *)
(* the end of the packet.                                                  *)
(***************************************************************************)
EXTENDS Integers, Sequences

CONSTANT Sizes

VARIABLES
  size,      \* the length of the packet
  cuts,      \* where its content calls for a cut
  loaded,    \* the content will not change any more
  taken,     \* the chunks taken so far: start and end position
  finished   \* there are no more

vars == << size, cuts, loaded, taken, finished >>

Start == IF taken = << >> THEN 0 ELSE taken[Len(taken)][2] + 1

IsEnd(e) == e \in cuts \/ e = size - 1

Init ==
  /\ size \in Sizes
  /\ cuts \in SUBSET Int
  /\ loaded = FALSE
  /\ taken = << >>
  /\ finished = FALSE

\* The packet gets its content.
Load ==
  /\ ~loaded
  /\ loaded' = TRUE
  /\ cuts' \in SUBSET Int
  /\ UNCHANGED << size, taken, finished >>

TakeChunk ==
  /\ loaded
  /\ \E end \in Start .. size - 1 :
       /\ IsEnd(end)
       /\ \A e \in Start .. end - 1 : ~IsEnd(e)
       /\ taken' = Append(taken, << Start, end >>)
  /\ UNCHANGED << size, cuts, loaded, finished >>

Finish ==
  /\ loaded
  /\ Start = size
  /\ finished' = TRUE
  /\ UNCHANGED << size, cuts, loaded, taken >>

Next == Load \/ TakeChunk \/ Finish

Spec == Init /\ [][Next]_vars
=============================================================================
