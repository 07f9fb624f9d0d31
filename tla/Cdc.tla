-------------------------------- MODULE Cdc --------------------------------
(***************************************************************************)
(* The kernel cdc() (Server/cdc.cpp), which cuts a packet into             *)
(* content-defined chunks: a hash of each window of WIN_SIZE bytes, and    *)
(* the end of a chunk before every window whose hash is TARGET.            *)
(*                                                                         *)
(* CdcStream adds cdc0(), the other kernel of the same file, and           *)
(* HostKernel the host program that starts one of them.                    *)
(***************************************************************************)
EXTENDS Integers, Sequences, Functions

CONSTANTS
  WIN_SIZE,     \* bytes that are hashed: 16 in the code
  PRIME,
  MODULUS,      \* a position is a boundary when its hash is TARGET modulo this
  TARGET,
  UINT,         \* number of values of an unsigned int
  Byte,         \* the bytes that are tried
  PacketSizes,  \* the lengths of packet that are tried
  MEMORY        \* bytes that can be read from buff on

ASSUME CdcAssumption ==
  /\ WIN_SIZE \in Nat \ {0, 1}
  /\ MODULUS \in Nat \ {0}
  /\ MEMORY \in Nat /\ UINT \in Nat
  /\ PacketSizes \subseteq 1 .. MEMORY
  /\ MEMORY < UINT

VARIABLES
  buff,        \* device memory: the packet and what lies behind it
  buff_size,   \* the length of the packet
  i,           \* the loop variable
  hash,        \* the hash of the last window
  chunk_q,     \* the entries the kernel has written
  kernel       \* "idle", the stage of the kernel, "done" or "crashed"

cdcVars == << buff, buff_size, i, hash, chunk_q, kernel >>

CdcInit ==
  /\ buff_size \in PacketSizes
  /\ i = WIN_SIZE
  /\ hash = 0
  /\ chunk_q = << >>
  /\ kernel = "idle"

\* "i < buff_size - WIN_SIZE" with unsigned operands.
Limit == (buff_size - WIN_SIZE) % UINT

\* The WIN_SIZE bytes from at on.
Window(at) == [ j \in 0 .. WIN_SIZE - 1 |-> buff[at + j] ]

\* hash += int(buff[...]) * pow(PRIME, j + 1), for each j of the loop.
Hash(window, js) ==
  SumFunction([ j \in js |-> window[WIN_SIZE - 1 - j] * PRIME ^ (j + 1) ])

\* A boundary at i is the end of the chunk before it.
Boundaries(h) == IF h % MODULUS = TARGET THEN << i - 1 >> ELSE << >>

\* A turn of the loop that leaves the hash h.
Turn(h) ==
  /\ kernel = "scan"
  /\ i < Limit
  /\ i + WIN_SIZE <= MEMORY
  /\ hash' = h
  /\ chunk_q' = chunk_q \o Boundaries(h)
  /\ i' = i + 1
  /\ UNCHANGED << buff, buff_size, kernel >>

\* A wrong form: the hash not reset for each window.
Scan_HashKept == Turn(hash + Hash(Window(i), 0 .. WIN_SIZE - 1))

Scan == Turn(Hash(Window(i), 0 .. WIN_SIZE - 1))

\* A window that reaches past the memory there is.
ScanOutside ==
  /\ kernel = "scan"
  /\ i < Limit
  /\ i + WIN_SIZE > MEMORY
  /\ kernel' = "crashed"
  /\ UNCHANGED << buff, buff_size, i, hash, chunk_q >>

\* The loop has been left and last is written.
Last(left, last) ==
  /\ kernel = "scan"
  /\ left
  /\ chunk_q' = Append(chunk_q, last)
  /\ kernel' = "done"
  /\ UNCHANGED << buff, buff_size, i, hash >>

\* Wrong forms: the length taken for the last position, and a loop that is left
\* at the limit only, where packets of less than two windows never are.
LastChunk_EndAtSize == Last(i >= Limit, buff_size)
LastChunk_AtLimitOnly == Last(i = Limit, buff_size - 1)

\* "chunk_q[chunk_index++] = buff_size-1;  // the last chunk"
LastChunk == Last(i >= Limit, buff_size - 1)

CdcStep == Scan \/ ScanOutside \/ LastChunk
=============================================================================
