----------------------------- MODULE MCTransfer -----------------------------
(* Instances of Transfer for TLC. *)
EXTENDS Transfer

\* Files of one to several blocks, with and without a remainder; the larger
\* blocks need the high byte of the header for their length.
MCWholeFiles == 7 .. 14
MCBlockSizes == {3, 4, 6, 7}
MCLargeBuffers == {7}
MCReliable == { [ copies |-> {1}, reorders |-> FALSE, fails |-> FALSE ] }

\* Files of zero to four blocks of two bytes, and a server whose block size is
\* below, at and above the client's.
MCFiles == 0 .. 7
MCOneBlockSize == {2}
MCServerBlockSizes == 1 .. 3
MCFaulty ==
  { [ copies |-> {0, 1},    reorders |-> FALSE, fails |-> FALSE ],
    [ copies |-> {0, 1, 2}, reorders |-> TRUE,  fails |-> FALSE ],
    [ copies |-> {0, 1},    reorders |-> FALSE, fails |-> TRUE  ] }

\* For the client alone: nothing arrives.
MCSilent == { [ copies |-> {0}, reorders |-> FALSE, fails |-> FALSE ] }
=============================================================================
