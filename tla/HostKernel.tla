----------------------------- MODULE HostKernel -----------------------------
(***************************************************************************)
(* encode() (Server/host.cpp) from its call to the end of the loop that    *)
(* takes the chunks of a packet: the host allocates and maps two device    *)
(* buffers, enqueues commands on an in-order OpenCL queue, waits for it to *)
(* drain, and reads what the kernel wrote.  Host, queue and kernel run     *)
(* concurrently.                                                           *)
(*                                                                         *)
(* The kernel writes no terminator; the loop stops at the first -1 behind  *)
(* its entries, so it depends on what the mapped array held before.        *)
(* What encode() does with a chunk is the subject of Encode.               *)
(***************************************************************************)
EXTENDS CdcStream

CONSTANTS
  Received,      \* the memory that the packet and what is behind it may hold
  Kernels,       \* names given to cl::Kernel: "cdc" in the code
  DeviceMemory,  \* what the memory from buff on may hold before
  MappedFill     \* what the entries of the mapped q_index may hold before

ASSUME HostKernelAssumption ==
  /\ Kernels \subseteq {"cdc", "cdc0"}
  /\ Received \subseteq [ 0 .. MEMORY - 1 -> Byte ]
  /\ DeviceMemory \subseteq [ 0 .. MEMORY - 1 -> Byte ]
  /\ MappedFill \subseteq Int

VARIABLES
  packet,     \* the packet that encode() was called with
  krnl,       \* the kernel chosen
  input_buf,  \* the array that is chunked, on the host
  q_index,    \* the array of chunk ends, on the host
  enqueued,   \* commands the host has put into the queue
  completed,  \* commands the queue is through with
  pc,         \* "fill", "map", "enqueue", "pop", "end" or "crashed"
  index,      \* entries the loop has taken
  chunks      \* the chunks it took: start and end position

commandVars == << enqueued, completed >>
loopVars == << index, chunks >>
hostVars == << packet, krnl, input_buf, q_index, commandVars, pc, loopVars >>
allVars == << cdcVars, streamVars, hostVars >>

Position == 0 .. buff_size - 1

\* What the host enqueues, in this order.
Commands == << "migrate in", "task", "migrate out" >>

HostInit ==
  /\ CdcInit
  /\ StreamInit
  /\ buff \in DeviceMemory
  /\ \E bytes \in Received : packet = [ k \in Position |-> bytes[k] ]
  /\ krnl \in Kernels
  /\ input_buf = packet
  /\ q_index = << >>
  /\ enqueued = 0
  /\ completed = 0
  /\ pc = "fill"
  /\ index = 0
  /\ chunks = << >>

-----------------------------------------------------------------------------
(* The host.                                                               *)

\* q_index is allocated and filled with -1.
Fill ==
  /\ pc = "fill"
  /\ q_index' = [ k \in Position |-> -1 ]
  /\ pc' = "map"
  /\ UNCHANGED << cdcVars, streamVars, packet, krnl, input_buf, commandVars, loopVars >>

\* Both arrays are replaced by mappings of new device buffers.  Nothing
\* defines their contents, and nothing is copied into them.
MapBuffers ==
  /\ pc = "map"
  /\ input_buf' \in [ Position -> Byte ]
  /\ \E f \in MappedFill : q_index' = [ k \in Position |-> f ]
  /\ pc' = "enqueue"
  /\ UNCHANGED << cdcVars, streamVars, packet, krnl, commandVars, loopVars >>

Enqueue ==
  /\ pc = "enqueue"
  /\ enqueued < Len(Commands)
  /\ enqueued' = enqueued + 1
  /\ UNCHANGED << cdcVars, streamVars, packet, krnl, input_buf, q_index, completed, pc, loopVars >>

\* The host has come to the loop and drained holds.
LoopWhen(drained) ==
  /\ pc = "enqueue"
  /\ enqueued = Len(Commands)
  /\ drained
  /\ pc' = "pop"
  /\ UNCHANGED << cdcVars, streamVars, packet, krnl, input_buf, q_index, commandVars, loopVars >>

\* A wrong form: a wait for the kernel instead of the queue.
Finish_KernelOnly == LoopWhen(kernel = "done")

\* "q.finish()" returns when every command has completed.
Finish == LoopWhen(completed = enqueued)

chunk_end_pos == IF chunks = << >> THEN -1 ELSE chunks[Len(chunks)][2]

\* One turn of "while(q_index[index]!=-1)".
PopChunk ==
  /\ pc = "pop"
  /\ index < buff_size
  /\ q_index[index] # -1
  /\ chunks' = Append(chunks, << chunk_end_pos + 1, q_index[index] >>)
  /\ index' = index + 1
  /\ UNCHANGED << cdcVars, streamVars, packet, krnl, input_buf, q_index, commandVars, pc >>

\* The loop ends at a -1, or leaves the array.
PopEnd ==
  /\ pc = "pop"
  /\ index < buff_size => q_index[index] = -1
  /\ pc' = IF index < buff_size THEN "end" ELSE "crashed"
  /\ UNCHANGED << cdcVars, streamVars, packet, krnl, input_buf, q_index, commandVars, loopVars >>

HostStep == Fill \/ MapBuffers \/ Enqueue \/ Finish \/ PopChunk \/ PopEnd

-----------------------------------------------------------------------------
(* The command queue, which completes one command after the other.         *)

Running(command) == completed < enqueued /\ Commands[completed + 1] = command

\* The first migration copies the host's side of both buffers to the device.
MigrateIn ==
  /\ Running("migrate in")
  /\ buff' = [ k \in DOMAIN buff |-> IF k \in Position THEN input_buf[k] ELSE buff[k] ]
  /\ completed' = completed + 1
  /\ UNCHANGED << buff_size, i, hash, chunk_q, kernel, streamVars,
                  packet, krnl, input_buf, q_index, enqueued, pc, loopVars >>

StartTask ==
  /\ Running("task")
  /\ kernel = "idle"
  /\ kernel' = IF krnl = "cdc" THEN "scan" ELSE "read"
  /\ UNCHANGED << buff, buff_size, i, hash, chunk_q, streamVars, hostVars >>

CompleteTask ==
  /\ Running("task")
  /\ kernel = "done"
  /\ completed' = completed + 1
  /\ UNCHANGED << cdcVars, streamVars, packet, krnl, input_buf, q_index, enqueued, pc, loopVars >>

\* The second migration brings back what the kernel wrote; behind it is what
\* the first one took there.
MigrateOut ==
  /\ Running("migrate out")
  /\ q_index' = [ k \in Position |-> IF k < Len(chunk_q) THEN chunk_q[k + 1] ELSE q_index[k] ]
  /\ completed' = completed + 1
  /\ UNCHANGED << cdcVars, streamVars, packet, krnl, input_buf, enqueued, pc, loopVars >>

QueueStep == MigrateIn \/ StartTask \/ CompleteTask \/ MigrateOut

CdcRuns == CdcStep /\ UNCHANGED << streamVars, hostVars >>
StreamRuns == StreamStep /\ UNCHANGED hostVars

HostNext == HostStep \/ QueueStep \/ CdcRuns \/ StreamRuns

\* The host and the kernel run on processors of their own, and the queue is
\* served by the OpenCL runtime.
HostFairness ==
  /\ WF_allVars(HostStep)
  /\ WF_allVars(QueueStep)
  /\ WF_allVars(CdcRuns \/ StreamRuns)

HostSpec == HostInit /\ [][HostNext]_allVars /\ HostFairness

-----------------------------------------------------------------------------

\* In the loop nothing is stale: the entries that the kernel wrote are in
\* q_index, and it computed them from the bytes that the loop then hashes and
\* compresses.  It takes the order of three commands and the wait behind them.
LoopSeesKernel ==
  pc \in {"pop", "end", "crashed"} /\ buff_size >= WIN_SIZE =>
    /\ kernel = "done"
    /\ Len(chunk_q) \in 1 .. buff_size
    /\ \A k \in 1 .. Len(chunk_q) : q_index[k - 1] = chunk_q[k]
    /\ \A k \in Position : buff[k] = input_buf[k]

\* The entries of the kernel cut a packet of at least a window into chunks that
\* tile it: each byte of the packet is in exactly one chunk, the chunks are in
\* order, and none is empty.
TilesPacket ==
  buff_size >= WIN_SIZE =>
    /\ \A k \in 1 .. Len(chunks) : k <= Len(chunk_q) =>
         /\ chunks[k][1] = IF k = 1 THEN 0 ELSE chunks[k - 1][2] + 1
         /\ chunks[k][1] <= chunks[k][2]
         /\ chunks[k][2] < buff_size
    /\ pc = "end" /\ Len(chunks) = Len(chunk_q) => chunk_end_pos = buff_size - 1

\* Where a chunk ends depends on the WIN_SIZE bytes behind it and on nothing
\* else, which is what makes repeated data fall into equal chunks.
Cut(end) == \E k \in 1 .. Len(chunk_q) : chunk_q[k] = end
CutsByContent ==
  kernel = "done" =>
    \A d, e \in WIN_SIZE - 1 .. buff_size - WIN_SIZE - 2 :
      Window(d + 1) = Window(e + 1) => (Cut(d) <=> Cut(e))

\* The missing terminator is the only thing that can go wrong in the loop: with
\* -1 behind the entries, as the code means it, the loop takes as many chunks as
\* the kernel wrote and does not leave the array.
EndsAtTerminator ==
  /\ pc \in {"end", "crashed"} /\ buff_size >= WIN_SIZE
  /\ \A k \in Position : k >= Len(chunk_q) => q_index[k] = -1
  => pc = "end" /\ Len(chunks) = Len(chunk_q)

\* For a packet of at least a window, host, queue and kernel together are a plain
\* sequential chunker, as far as the loop takes what the kernel wrote.
ContentHash(e) ==
  IF krnl = "cdc"
    THEN Hash([ j \in 0 .. WIN_SIZE - 1 |-> input_buf[e + 1 + j] ], 0 .. WIN_SIZE - 1)
    ELSE Hash(<< >>, {})
ContentCuts ==
  { e \in WIN_SIZE - 1 .. buff_size - WIN_SIZE - 2 : ContentHash(e) % MODULUS = TARGET }
KernelChunks ==
  IF buff_size < WIN_SIZE THEN << >>
  ELSE IF Len(chunks) <= Len(chunk_q) THEN chunks
  ELSE SubSeq(chunks, 1, Len(chunk_q))

Ch == INSTANCE Chunker WITH
        Sizes    <- PacketSizes,
        size     <- buff_size,
        cuts     <- ContentCuts,
        loaded   <- pc \notin {"fill", "map"},
        taken    <- KernelChunks,
        finished <- buff_size >= WIN_SIZE /\ pc \in {"end", "crashed"}
ImplementsChunker == Ch!Spec

\* encode_parts.h says of what cdc returns: "chunk end position in the buff".
EndsInBuff ==
  \A k \in 1 .. Len(chunk_q) : chunk_q[k] \in Position

\* host.cpp says of the loop: "pop out each chunk and manipulate each chunk in
\* order".  It takes the chunks of the kernel and no others.
TakesKernelChunks ==
  Len(chunks) <= Len(chunk_q)

\* encode_parts.h says that what is chunked is the "array acquired from
\* get_packet()".
ChunksOfPacket ==
  pc = "pop" => input_buf = packet

\* encode() comes out of its loop: with cdc for every packet, with cdc0 for every
\* packet of the bytes that it takes before it looks at the length.  A read
\* outside of memory ends the kernel too.
Ends ==
  (krnl = "cdc" \/ buff_size >= Fetched) ~> (pc \in {"end", "crashed"} \/ kernel = "crashed")
=============================================================================
