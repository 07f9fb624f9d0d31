------------------------------- MODULE Client -------------------------------
(***************************************************************************)
(* Client/client.cpp: the program that cuts a file into blocks and sends   *)
(* each one as a UDP datagram.  The file is read completely before the     *)
(* first sendto, so its length is all the packetiser depends on.           *)
(***************************************************************************)
EXTENDS Packet, Sequences

CONSTANTS
  FileSizes,     \* the lengths of file that are tried
  BlockSizes,    \* the values of -b that are tried
  MAX_BLOCKSIZE  \* capacity of the send buffer, without its header

\* The client never compares -b with MAX_BLOCKSIZE, and divides by it; the
\* header has one bit less than two bytes for a length (16384 < 256 * 128).
ASSUME ClientAssumption ==
  /\ FileSizes \subseteq Nat
  /\ MAX_BLOCKSIZE \in Nat
  /\ MAX_BLOCKSIZE < ByteSize * DONE_BIT
  /\ BlockSizes \subseteq 1 .. MAX_BLOCKSIZE

VARIABLES
  bytes_read,   \* what fread returned: the length of the file
  blocksize,    \* the block size of the client
  n,            \* the loop counter of main
  stage,        \* which part of main comes next
  sent          \* every datagram handed to sendto, in order

clientVars == << bytes_read, blocksize, n, stage, sent >>

loops     == bytes_read \div blocksize
remainder == bytes_read % blocksize

ClientInit ==
  /\ bytes_read \in FileSizes
  /\ blocksize \in BlockSizes
  /\ n = 0
  /\ stage = "blocks"
  /\ sent = << >>

\* memcpy into local, fill in the header, sendto, count.
Send(from, size, last) ==
  /\ sent' = Append(sent, Datagram(from, size, last))
  /\ n' = n + 1
  /\ UNCHANGED << bytes_read, blocksize >>

\* A wrong form: the loop bound without its "- 1".
SendBlock_OneTooMany ==
  /\ stage = "blocks"
  /\ n < loops
  /\ Send(n * blocksize, blocksize, FALSE)
  /\ UNCHANGED stage

\* One turn of the loop that sends every full block but one.
SendBlock ==
  /\ stage = "blocks"
  /\ n < loops - 1
  /\ Send(n * blocksize, blocksize, FALSE)
  /\ UNCHANGED stage

\* "if no remainder send the last chunk with done bit"
SendLastBlock ==
  /\ stage = "blocks"
  /\ n >= loops - 1
  /\ remainder = 0
  /\ Send(n * blocksize, blocksize, TRUE)
  /\ stage' = "sent"

\* "if remainder then send last chunk as normal"
SendLastBlockAsNormal ==
  /\ stage = "blocks"
  /\ n >= loops - 1
  /\ remainder # 0
  /\ Send(n * blocksize, blocksize, FALSE)
  /\ stage' = "remainder"

\* A wrong form: the remainder copied from where the last block was.
SendRemainder_FromLastBlock ==
  /\ stage = "remainder"
  /\ Send((loops - 1) * blocksize, remainder, TRUE)
  /\ stage' = "sent"

\* "send remaining pieces"
SendRemainder ==
  /\ stage = "remainder"
  /\ Send(loops * blocksize, remainder, TRUE)
  /\ stage' = "sent"

ClientStep ==
  \/ SendBlock
  \/ SendLastBlock
  \/ SendLastBlockAsNormal
  \/ SendRemainder

ClientSpec == ClientInit /\ [][ClientStep]_clientVars

-----------------------------------------------------------------------------

ClientTypeOK ==
  /\ bytes_read \in FileSizes
  /\ blocksize \in BlockSizes
  /\ n \in Nat
  /\ stage \in {"blocks", "remainder", "sent"}
  /\ sent \in Seq([ header : [low : Byte, high : Byte],
                    from : Nat, size : 1 .. MAX_BLOCKSIZE ])

End(d) == d.from + d.size

\* A file of at least one block goes out exactly once: every datagram starts
\* where the one before it ended, none reaches past the end of the file, and
\* when the client is finished the last one ends at the end of the file.
SentFileOnce ==
  bytes_read >= blocksize =>
    /\ \A k \in 1 .. Len(sent) :
         /\ sent[k].from = IF k = 1 THEN 0 ELSE End(sent[k - 1])
         /\ End(sent[k]) <= bytes_read
    /\ stage = "sent" => sent # << >> /\ End(sent[Len(sent)]) = bytes_read

\* The header of every datagram decodes, at the other end, to the size of its
\* payload, and the done bit is set in the last datagram of a finished client
\* and in no other, whatever the length of the file.
HeaderTellsTruth ==
  \A k \in 1 .. Len(sent) :
    /\ LengthOf(sent[k].header) = sent[k].size
    /\ IsDone(sent[k].header) <=> (stage = "sent" /\ k = Len(sent))

\* The inductive invariant: everything that has been sent, and how far the
\* program is, follow from n.  A file shorter than a block is sent as if it had
\* one.
Blocks == IF loops = 0 THEN 1 ELSE loops

NthDatagram(k) ==
  IF k <= Blocks
    THEN Datagram((k - 1) * blocksize, blocksize, remainder = 0 /\ k = Blocks)
    ELSE Datagram(loops * blocksize, remainder, TRUE)

ClientInv ==
  /\ ClientTypeOK
  /\ Len(sent) = n
  /\ \A k \in 1 .. n : sent[k] = NthDatagram(k)
  /\ stage = "blocks" => n < Blocks
  /\ stage = "remainder" => remainder # 0 /\ n = Blocks
  /\ stage = "sent" => n = IF remainder = 0 THEN Blocks ELSE Blocks + 1

\* What "send remaining pieces" promises for every file: a payload is a piece
\* of the file.  Files shorter than a block break it.
SentPiecesOfFile ==
  \A k \in 1 .. Len(sent) : End(sent[k]) <= bytes_read
=============================================================================
