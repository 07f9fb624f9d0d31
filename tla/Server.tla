------------------------------- MODULE Server -------------------------------
(***************************************************************************)
(* The receiving half of the encoder: ESE532_Server::get_packet            *)
(* (Server/server.cpp) and the main loop that drives it through a ring of  *)
(* packet buffers (Server/host.cpp, repeated in Server/encoder.cpp).       *)
(*                                                                         *)
(* A byte of memory is known by where it came from: an offset in the       *)
(* client's file, or Garbage when the program never wrote it.  What main   *)
(* hands to encode() is recorded in fed; Archive models encode() itself.   *)
(***************************************************************************)
EXTENDS Packet, Sequences, FiniteSets

CONSTANTS
  NUM_PACKETS,       \* slots of the ring
  pipe_depth,        \* the slot main starts with
  NUM_ELEMENTS,      \* payload bytes of a slot
  ServerBlockSizes,  \* the values of the server's -b that are tried
  MAX_FAILURES       \* bound on the calls of recvfrom that fail

ASSUME ServerAssumption ==
  /\ NUM_PACKETS \in Nat
  /\ pipe_depth \in 0 .. NUM_PACKETS - 1
  /\ NUM_ELEMENTS \in Nat
  /\ ServerBlockSizes \subseteq 0 .. NUM_ELEMENTS
  /\ MAX_FAILURES \in Nat

Garbage == -1

VARIABLES
  server_blocksize,  \* ESE532_Server::blocksize
  sockq,             \* datagrams the kernel holds for the socket
  input,             \* the ring of packet buffers
  writer,            \* index of the next slot
  done,              \* the done bit of the packet decoded last
  got,               \* per call of get_packet: << the datagram >>, << >> if it failed
  fed                \* per call of encode(): the bytes it was given

serverVars == << server_blocksize, sockq, input, writer, done, got, fed >>

Unwritten ==
  [ header |-> [ low |-> Garbage, high |-> Garbage ],
    data   |-> [ j \in 1 .. NUM_ELEMENTS |-> Garbage ] ]

ServerInit ==
  /\ server_blocksize \in ServerBlockSizes
  /\ sockq = << >>
  /\ input = [ w \in 0 .. NUM_PACKETS - 1 |-> Unwritten ]
  /\ writer = pipe_depth
  /\ done = FALSE
  /\ got = << >>
  /\ fed = << >>

\* The loop resets writer before it uses it.
Slot == IF writer = NUM_PACKETS THEN 0 ELSE writer

\* recvfrom(sockfd, buffer, blocksize + HEADER, ...): the kernel throws away
\* what does not fit and leaves the rest of the slot as it was.
Overwrite(d, slot, room) ==
  [ header |-> d.header,
    data   |-> [ j \in 1 .. NUM_ELEMENTS |->
                   IF j <= d.size /\ j <= room THEN d.from + j - 1
                                              ELSE slot.data[j] ] ]

\* A wrong form: no room for the header in the size given to recvfrom.
Received_NoHeaderRoom(d, slot) == Overwrite(d, slot, server_blocksize - 2)

Received(d, slot) == Overwrite(d, slot, server_blocksize)

\* The two header bytes main finds in a slot: whatever malloc returned, if
\* nothing was ever received there.
HeadersIn(slot) ==
  IF slot.header.low = Garbage THEN [ low : Byte, high : Byte ]
                               ELSE { slot.header }

\* &buffer[HEADER], length: the length comes from the header alone, and may
\* reach past what was received and past the slot.
Payload(slot, length) ==
  [ j \in 1 .. length |->
      IF j <= NUM_ELEMENTS THEN slot.data[j] ELSE Garbage ]

Finish(slot, header, last, next) ==
  /\ input' = [ input EXCEPT ![Slot] = [ slot EXCEPT !.header = header ] ]
  /\ done' = last
  /\ fed' = Append(fed, Payload(slot, LengthOf(header)))
  /\ writer' = next

\* Two wrong forms: a writer that advances from where it was before the reset,
\* and a done bit read before the packet is there.
Decode_ResetForgotten(slot) ==
  \E h \in HeadersIn(slot) : Finish(slot, h, IsDone(h), writer + 1)
Decode_DoneOfOldPacket(slot) ==
  \E h \in HeadersIn(slot) : Finish(slot, h, IsDone(input[Slot].header), Slot + 1)

\* The rest of an iteration, with the given contents in the slot: decode the
\* header, encode, advance.
Decode(slot) ==
  \E h \in HeadersIn(slot) : Finish(slot, h, IsDone(h), Slot + 1)

\* get_packet blocks until a datagram is there.
GetPacket ==
  /\ ~done
  /\ sockq # << >>
  /\ sockq' = Tail(sockq)
  /\ got' = Append(got, << Head(sockq) >>)
  /\ Decode(Received(Head(sockq), input[Slot]))
  /\ UNCHANGED server_blocksize

Failures == { k \in 1 .. Len(got) : got[k] = << >> }

\* recvfrom returns -1: get_packet prints a message and main, which ignores
\* the result, decodes and encodes what the slot already holds.
GetPacketFails ==
  /\ ~done
  /\ Cardinality(Failures) < MAX_FAILURES
  /\ got' = Append(got, << >>)
  /\ Decode(input[Slot])
  /\ UNCHANGED << server_blocksize, sockq >>

ServerStep == GetPacket \/ GetPacketFails
=============================================================================
