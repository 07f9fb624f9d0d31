------------------------------ MODULE Transfer ------------------------------
(***************************************************************************)
(* The client, the network and the encoder's receive loop together.        *)
(*                                                                         *)
(* UDP promises little: each datagram sent arrives some number of times,   *)
(* perhaps none, perhaps in another order, and one that arrives at a full  *)
(* socket buffer is dropped.  The two programs exchange nothing else:      *)
(* there is no answer, no timeout and no retry.                            *)
(***************************************************************************)
EXTENDS Client, Server, SequencesExt

CONSTANTS
  Conditions,     \* what can go wrong in a transfer: a set of records of
                  \*   copies    how many times a datagram sent can arrive
                  \*   reorders  whether datagrams can overtake each other
                  \*   fails     whether recvfrom can fail
  SOCKET_BUFFER   \* datagrams the server's socket holds

ASSUME TransferAssumption ==
  /\ Conditions \subseteq
       [ copies : SUBSET Nat, reorders : BOOLEAN, fails : BOOLEAN ]
  /\ SOCKET_BUFFER \in Nat

VARIABLES
  conditions,   \* those of this transfer
  air           \* datagrams on their way

transferVars == << clientVars, serverVars, conditions, air >>

TransferInit ==
  /\ ClientInit
  /\ ServerInit
  /\ conditions \in Conditions
  /\ air = << >>

\* Any step of the client is one sendto.
ClientSends ==
  /\ ClientStep
  /\ \E copies \in conditions.copies :
       air' = air \o [ i \in 1 .. copies |-> Last(sent') ]
  /\ UNCHANGED << serverVars, conditions >>

\* A datagram reaches the host of the server.
Arrive ==
  \E i \in 1 .. Len(air) :
    /\ i = 1 \/ conditions.reorders
    /\ air' = RemoveAt(air, i)
    /\ sockq' = IF Len(sockq) < SOCKET_BUFFER THEN Append(sockq, air[i])
                                              ELSE sockq
    /\ UNCHANGED << clientVars, server_blocksize, input, writer, done, got, fed >>
    /\ UNCHANGED conditions

ServerReceives == GetPacket /\ UNCHANGED << clientVars, conditions, air >>

ServerFails ==
  /\ conditions.fails
  /\ GetPacketFails
  /\ UNCHANGED << clientVars, conditions, air >>

TransferNext == ClientSends \/ Arrive \/ ServerReceives \/ ServerFails

\* The client runs to its end, what is on its way arrives (what is lost never
\* was), and a receive returns when a datagram is there.
TransferSpec ==
  /\ TransferInit
  /\ [][TransferNext]_transferVars
  /\ WF_transferVars(ClientSends)
  /\ WF_transferVars(Arrive)
  /\ WF_transferVars(ServerReceives)

-----------------------------------------------------------------------------

TransferTypeOK ==
  /\ ClientTypeOK
  /\ server_blocksize \in ServerBlockSizes
  /\ writer \in 0 .. NUM_PACKETS
  /\ \A w \in 0 .. NUM_PACKETS - 1 :
       \A j \in 1 .. NUM_ELEMENTS :
         input[w].data[j] \in Nat \cup {Garbage}
  /\ Len(sockq) <= SOCKET_BUFFER
  /\ Len(fed) = Len(got)

\* Whatever the network does, the loop ends at the first datagram with a done
\* bit that is received and reads none after it; with a file of at least one
\* block the last bytes encoded are then the end of the file.
StopsAtFirstDone ==
  /\ \A k \in 1 .. Len(got) :
       \A i \in 1 .. Len(got[k]) :
         IsDone(got[k][i].header) <=> (done /\ k = Len(got))
  /\ (done /\ Failures = {} /\ bytes_read >= blocksize /\ server_blocksize >= blocksize)
       => Last(Last(fed)) = bytes_read - 1

\* On a network that only loses datagrams, what is encoded is a subsequence of
\* the file: no block twice, none before an earlier one.
OnlyLoses ==
  /\ conditions.copies \subseteq {0, 1}
  /\ ~conditions.reorders
  /\ ~conditions.fails
InFileOrder ==
  OnlyLoses /\ bytes_read >= blocksize /\ server_blocksize >= blocksize =>
    \A k, m \in 1 .. Len(fed) :
      \A i \in 1 .. Len(fed[k]), j \in 1 .. Len(fed[m]) :
        k < m \/ (k = m /\ i < j) => fed[k][i] < fed[m][j]

\* The receive loop ends if a datagram with the done bit gets into the socket
\* buffer; nothing else ends it.
DoneQueued == \E i \in 1 .. Len(sockq) : IsDone(sockq[i].header)
StopsOnceDoneIsQueued == DoneQueued ~> done

\* Where a byte that encode() is given comes from: from the last receive into
\* the same slot that wrote that byte, and if there was none it is what malloc
\* returned.  When no receive fails and the server's block size is not below
\* the client's this is the receive of the same iteration, so that a slot that
\* is used again leaks nothing, though the length that main decodes is the one
\* in the header and not the one that recvfrom returned.
Wrote(k, j) ==
  /\ got[k] # << >>
  /\ j <= got[k][1].size
  /\ j <= server_blocksize
SameSlot(m, k) == (k - m) % NUM_PACKETS = 0
Writers(k, j) ==
  { m \in 1 .. k : SameSlot(m, k) /\ j <= NUM_ELEMENTS /\ Wrote(m, j) }
SlotMemory ==
  \A k \in 1 .. Len(fed) :
    \A j \in 1 .. Len(fed[k]) :
      IF Writers(k, j) = {}
        THEN fed[k][j] = Garbage
        ELSE fed[k][j] = got[Max(Writers(k, j))][1].from + j - 1

\* Without faults the two programs implement FileTransfer.
FT == INSTANCE FileTransfer WITH
        file_size <- bytes_read,
        delivered <- fed,
        finished  <- done
DeliversFile == FT!Spec
=============================================================================
