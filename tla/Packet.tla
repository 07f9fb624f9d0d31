------------------------------- MODULE Packet -------------------------------
(***************************************************************************)
(* The wire format shared by the client and the encoder's receive loop: a  *)
(* two-byte header (low byte, then high byte whose top bit says "last      *)
(* packet") followed by the payload.                                       *)
(*                                                                         *)
(* A payload is a slice of the file the client read, so a datagram carries *)
(* the file offset it was copied from and its size; an offset at or past   *)
(* the end of the file stands for the memory behind the client's buffer.   *)
(***************************************************************************)
EXTENDS Integers

CONSTANT
  ByteSize   \* number of values of an unsigned char: 256 in the code

ASSUME ByteSizeAssumption ==
  ByteSize \in Nat /\ ByteSize > 0 /\ ByteSize % 2 = 0

Byte == 0 .. ByteSize - 1

\* The most significant bit of a byte (1 << 7).
DONE_BIT == ByteSize \div 2

\* b | DONE_BIT
SetDone(b) == IF b >= DONE_BIT THEN b ELSE b + DONE_BIT

\* A wrong form: the done bit stored over the high byte instead of into it.
Header_DoneBitOnly(size, last) ==
  [ low  |-> size % ByteSize,
    high |-> IF last THEN DONE_BIT ELSE (size \div ByteSize) % ByteSize ]

\* The header the client stores in local[0] and local[1] for a payload of
\* the given size; the assignments to char keep eight bits.
Header(size, last) ==
  LET high == (size \div ByteSize) % ByteSize
  IN  [ low  |-> size % ByteSize,
        high |-> IF last THEN SetDone(high) ELSE high ]

\* done = buffer[1] & DONE_BIT_L
IsDone(h) == h.high >= DONE_BIT

\* A wrong form: the done bit left in the length.
LengthOf_DoneBitKept(h) == h.low + ByteSize * h.high

\* length = (buffer[0] | (buffer[1] << 8)) & ~DONE_BIT_H
LengthOf(h) == h.low + ByteSize * (h.high % DONE_BIT)

Datagram(from, size, last) ==
  [ header |-> Header(size, last), from |-> from, size |-> size ]
=============================================================================
