-------------------------- MODULE HostKernelProofs --------------------------
(***************************************************************************)
(* Proofs about HostKernel, for every window, hash, packet length and      *)
(* content, for both kernels, and for anything that the device memory may  *)
(* have held before.                                                       *)
(*                                                                         *)
(* Packets shorter than a window are left out: for them the properties are *)
(* not claimed (see EndsInBuff).                                           *)
(***************************************************************************)
EXTENDS HostKernel, SequenceTheorems, TLAPS

-----------------------------------------------------------------------------
(* The entries of a kernel, as a set of positions and a sequence.          *)

\* The positions that end a chunk because of the hash behind them.
CutSet ==
  { e \in Nat :
      IF krnl = "cdc" THEN Hash(Window(e + 1), 0 .. WIN_SIZE - 1) % MODULUS = TARGET
                      ELSE Hash(<< >>, {}) % MODULUS = TARGET }

\* The first len entries of s rise, and faster than they are counted.
Rising(s, len) ==
  \A k \in 1 .. len : k - 1 <= s[k] /\ \A j \in 1 .. k - 1 : s[j] < s[k]

\* The positions from first to last in s are those of cuts.
Finds(cuts, s, len, last) ==
  \A e \in WIN_SIZE - 1 .. last : e \in cuts <=> \E k \in 1 .. len : s[k] = e

\* What a scan has found when it comes to position at.
Marks(cuts, size, s, len, at) ==
  /\ at = WIN_SIZE \/ at <= size - WIN_SIZE
  /\ Rising(s, len)
  /\ \A k \in 1 .. len : s[k] \in WIN_SIZE + k - 2 .. at - 2 /\ s[k] < size - 1
  /\ Finds(cuts, s, len, at - 2)

\* What it has written in the end: the cuts in the range of the scan, and the
\* end of the packet.
AllMarks(cuts, size, s, len) ==
  /\ len >= 1
  /\ s[len] = size - 1
  /\ \A k \in 1 .. len - 1 : s[k] \in WIN_SIZE + k - 2 .. size - WIN_SIZE - 2
  /\ Rising(s, len)
  /\ \A k \in 1 .. len : s[k] \in 0 .. size - 1
  /\ Finds(cuts, s, len, size - WIN_SIZE - 2)

-----------------------------------------------------------------------------
(* The inductive invariant.                                                *)

HostType ==
  /\ buff_size \in PacketSizes
  /\ buff \in [ 0 .. MEMORY - 1 -> Byte ]
  /\ input_buf \in [ Position -> Byte ]
  /\ i \in Nat /\ i >= WIN_SIZE
  /\ chunk_q \in Seq(Int)
  /\ outStream \in Seq(Int)
  /\ krnl \in {"cdc", "cdc0"}
  /\ pc \in {"fill", "map", "enqueue", "pop", "end", "crashed"}
  /\ pc \notin {"fill"} => q_index \in [ Position -> Int ]
  /\ chunks \in Seq(Int \X Int)
  /\ index = Len(chunks)

Uploaded == \A k \in Position : buff[k] = input_buf[k]
Downloaded == \A k \in 1 .. Len(chunk_q) : q_index[k - 1] = chunk_q[k]

\* What is true once so many commands are completed.
Pipeline ==
  /\ enqueued \in 0 .. 3
  /\ completed \in 0 .. enqueued
  /\ pc \in {"fill", "map"} => enqueued = 0
  /\ pc \in {"pop", "end", "crashed"} => completed = 3
  /\ completed = 0 => kernel = "idle"
  /\ completed >= 1 => Uploaded
  /\ completed >= 2 => kernel = "done"
  /\ completed >= 3 => Downloaded

\* What the kernel has written at each of its stages.
Progress ==
  \/ /\ kernel \in {"idle", "read", "fetch"}
     /\ kernel # "idle" => krnl = "cdc0"
     /\ i = WIN_SIZE /\ chunk_q = << >> /\ outStream = << >>
  \/ /\ kernel = "scan" /\ krnl = "cdc"
     /\ Marks(CutSet, buff_size, chunk_q, Len(chunk_q), i)
  \/ /\ kernel = "exec" /\ krnl = "cdc0"
     /\ chunk_q = << >>
     /\ Marks(CutSet, buff_size, outStream, Len(outStream), i)
  \/ /\ kernel = "write" /\ krnl = "cdc0"
     /\ Len(outStream) >= 1
     /\ LET s == chunk_q \o outStream
        IN  /\ s[Len(s)] = -1
            /\ AllMarks(CutSet, buff_size, s, Len(s) - 1)
  \/ /\ kernel = "done"
     /\ AllMarks(CutSet, buff_size, chunk_q, Len(chunk_q))

\* The chunks are what lies between the entries of q_index.
Between ==
  \A k \in 1 .. Len(chunks) :
    /\ chunks[k][1] = IF k = 1 THEN 0 ELSE chunks[k - 1][2] + 1
    /\ chunks[k][2] = q_index[k - 1]
    /\ pc \in {"pop", "end", "crashed"}

HostInv ==
  /\ buff_size \in PacketSizes
  /\ buff_size >= WIN_SIZE => HostType /\ Pipeline /\ Progress /\ Between

-----------------------------------------------------------------------------
(* Facts about the entries.                                                *)

\* A packet of at least a window: the subtraction does not wrap.
LEMMA LimitIs ==
  ASSUME buff_size \in PacketSizes, buff_size >= WIN_SIZE
  PROVE  /\ buff_size \in Nat /\ buff_size >= 1 /\ buff_size <= MEMORY
         /\ WIN_SIZE \in Nat /\ WIN_SIZE >= 1
         /\ Limit = buff_size - WIN_SIZE
<1>1. buff_size \in 1 .. MEMORY /\ MEMORY \in Nat /\ UINT \in Nat /\ MEMORY < UINT
      /\ WIN_SIZE \in Nat \ {0}
  BY CdcAssumption DEF CdcAssumption
<1>2. buff_size - WIN_SIZE \in 0 .. UINT - 1
  BY <1>1
<1>3. (buff_size - WIN_SIZE) % UINT = buff_size - WIN_SIZE
  BY <1>1, <1>2
<1> QED
  BY <1>1, <1>3 DEF Limit

\* Before the first window nothing is found.
LEMMA NoMarks ==
  ASSUME NEW cuts, NEW size \in Nat
  PROVE  Marks(cuts, size, << >>, Len(<< >>), WIN_SIZE)
<1>1. WIN_SIZE \in Nat
  BY CdcAssumption DEF CdcAssumption
<1> QED
  BY <1>1 DEF Marks, Rising, Finds

\* A turn of a scan.
LEMMA NextMark ==
  ASSUME NEW cuts, NEW size \in Nat, NEW s \in Seq(Int),
         NEW at \in Nat, at >= WIN_SIZE, at < size - WIN_SIZE,
         Marks(cuts, size, s, Len(s), at),
         NEW t, t = IF at - 1 \in cuts THEN Append(s, at - 1) ELSE s
  PROVE  t \in Seq(Int) /\ Marks(cuts, size, t, Len(t), at + 1)
<1>1. WIN_SIZE \in Nat /\ WIN_SIZE >= 1
  BY CdcAssumption DEF CdcAssumption
<1>2. /\ Rising(s, Len(s))
      /\ \A k \in 1 .. Len(s) : s[k] \in WIN_SIZE + k - 2 .. at - 2 /\ s[k] < size - 1
      /\ Finds(cuts, s, Len(s), at - 2)
  BY DEF Marks
<1>3. CASE at - 1 \in cuts
  <2>1. /\ t \in Seq(Int) /\ Len(t) = Len(s) + 1
        /\ t[Len(s) + 1] = at - 1
        /\ \A k \in 1 .. Len(s) : t[k] = s[k]
    BY <1>1, <1>3
  <2>2. Rising(t, Len(t))
    <3> SUFFICES ASSUME NEW k \in 1 .. Len(s) + 1
                 PROVE  k - 1 <= t[k] /\ \A j \in 1 .. k - 1 : t[j] < t[k]
      BY <2>1 DEF Rising
    <3>1. CASE k <= Len(s)
      <4>1. k \in 1 .. Len(s) /\ \A j \in 1 .. k - 1 : j \in 1 .. Len(s)
        BY <3>1
      <4>2. k - 1 <= s[k] /\ \A j \in 1 .. k - 1 : s[j] < s[k]
        BY <1>2, <4>1 DEF Rising
      <4> QED
        BY <2>1, <4>1, <4>2
    <3>2. CASE k = Len(s) + 1 /\ k = 1
      BY <1>1, <2>1, <3>2
    <3>3. CASE k = Len(s) + 1 /\ k > 1
      <4>1. Len(s) \in 1 .. Len(s)
        BY <3>3
      <4>2. Len(s) - 1 <= s[Len(s)] /\ s[Len(s)] <= at - 2 /\ s[Len(s)] \in Int
        BY <1>1, <1>2, <4>1 DEF Rising
      <4>3. t[k] = at - 1 /\ \A j \in 1 .. k - 1 : t[j] = s[j] /\ s[j] <= at - 2 /\ s[j] \in Int
        BY <1>1, <1>2, <2>1, <3>3
      <4> QED
        BY <1>1, <3>3, <4>2, <4>3
    <3> QED
      BY <3>1, <3>2, <3>3
  <2>3. ASSUME NEW k \in 1 .. Len(t)
        PROVE  t[k] \in WIN_SIZE + k - 2 .. (at + 1) - 2 /\ t[k] < size - 1
    <3>1. CASE k <= Len(s)
      BY <1>1, <1>2, <2>1, <3>1
    <3>2. CASE k = Len(s) + 1
      <4>1. Len(s) >= 1 => s[Len(s)] \in WIN_SIZE + Len(s) - 2 .. at - 2
        BY <1>2
      <4>2. WIN_SIZE + k - 2 <= at - 1
        BY <1>1, <3>2, <4>1
      <4> QED
        BY <1>1, <2>1, <3>2, <4>2
    <3> QED
      BY <2>1, <3>1, <3>2
  <2>4. Finds(cuts, t, Len(t), (at + 1) - 2)
    <3> SUFFICES ASSUME NEW e \in WIN_SIZE - 1 .. (at + 1) - 2
                 PROVE  e \in cuts <=> \E k \in 1 .. Len(t) : t[k] = e
      BY DEF Finds
    <3>1. CASE e = at - 1
      BY <1>1, <1>3, <2>1, <3>1
    <3>2. CASE e # at - 1
      <4>1. e \in WIN_SIZE - 1 .. at - 2
        BY <1>1, <3>2
      <4>2. e \in cuts <=> \E k \in 1 .. Len(s) : s[k] = e
        BY <1>2, <4>1 DEF Finds
      <4> QED
        BY <2>1, <3>2, <4>2
    <3> QED
      BY <3>1, <3>2
  <2> QED
    BY <1>1, <2>1, <2>2, <2>3, <2>4 DEF Marks
<1>4. CASE at - 1 \notin cuts
  <2>1. t = s
    BY <1>4
  <2>2. \A k \in 1 .. Len(s) : s[k] \in WIN_SIZE + k - 2 .. (at + 1) - 2 /\ s[k] < size - 1
    BY <1>1, <1>2
  <2>3. Finds(cuts, s, Len(s), (at + 1) - 2)
    BY <1>1, <1>2, <1>4 DEF Finds
  <2> QED
    BY <1>1, <1>2, <2>1, <2>2, <2>3 DEF Marks
<1> QED
  BY <1>3, <1>4

\* The end of a scan.
LEMMA LastMark ==
  ASSUME NEW cuts, NEW size \in Nat, size >= 1, NEW s \in Seq(Int),
         NEW at \in Nat, at >= WIN_SIZE, at >= size - WIN_SIZE,
         Marks(cuts, size, s, Len(s), at),
         NEW t, \A k \in 1 .. Len(s) : t[k] = s[k],
         t[Len(s) + 1] = size - 1
  PROVE  AllMarks(cuts, size, t, Len(s) + 1)
<1>1. WIN_SIZE \in Nat /\ WIN_SIZE >= 1 /\ Len(s) \in Nat
  BY CdcAssumption DEF CdcAssumption
<1>2. /\ Rising(s, Len(s))
      /\ \A k \in 1 .. Len(s) : s[k] \in WIN_SIZE + k - 2 .. at - 2 /\ s[k] < size - 1
      /\ Finds(cuts, s, Len(s), at - 2)
  BY DEF Marks
<1>3. Rising(t, Len(s) + 1)
  <2> SUFFICES ASSUME NEW k \in 1 .. Len(s) + 1
               PROVE  k - 1 <= t[k] /\ \A j \in 1 .. k - 1 : t[j] < t[k]
    BY DEF Rising
  <2>1. CASE k <= Len(s)
    <3>1. k \in 1 .. Len(s) /\ \A j \in 1 .. k - 1 : j \in 1 .. Len(s)
      BY <2>1
    <3>2. k - 1 <= s[k] /\ \A j \in 1 .. k - 1 : s[j] < s[k]
      BY <1>2, <3>1 DEF Rising
    <3> QED
      BY <3>1, <3>2
  <2>2. CASE k = Len(s) + 1 /\ k = 1
    BY <1>1, <2>2
  <2>3. CASE k = Len(s) + 1 /\ k > 1
    <3>1. Len(s) \in 1 .. Len(s)
      BY <1>1, <2>3
    <3>2. Len(s) - 1 <= s[Len(s)] /\ s[Len(s)] < size - 1 /\ s[Len(s)] \in Int
      BY <1>2, <3>1 DEF Rising
    <3>3. t[k] = size - 1 /\ \A j \in 1 .. k - 1 : t[j] = s[j] /\ s[j] < size - 1
      BY <1>1, <1>2, <2>3
    <3> QED
      BY <1>1, <2>3, <3>2, <3>3
  <2> QED
    BY <1>1, <2>1, <2>2, <2>3
<1>4. \A k \in 1 .. Len(s) + 1 : t[k] \in 0 .. size - 1
  BY <1>1, <1>2
<1>5. Finds(cuts, t, Len(s) + 1, size - WIN_SIZE - 2)
  <2> SUFFICES ASSUME NEW e \in WIN_SIZE - 1 .. size - WIN_SIZE - 2
               PROVE  e \in cuts <=> \E k \in 1 .. Len(s) + 1 : t[k] = e
    BY DEF Finds
  <2>1. e \in WIN_SIZE - 1 .. at - 2 /\ e # size - 1
    BY <1>1
  <2>2. e \in cuts <=> \E k \in 1 .. Len(s) : s[k] = e
    BY <1>2, <2>1 DEF Finds
  <2> QED
    BY <1>1, <2>1, <2>2
<1>6. \A k \in 1 .. (Len(s) + 1) - 1 : t[k] \in WIN_SIZE + k - 2 .. size - WIN_SIZE - 2
  <2>1. at = WIN_SIZE \/ at <= size - WIN_SIZE
    BY DEF Marks
  <2> QED
    BY <1>1, <1>2, <2>1
<1> QED
  BY <1>1, <1>3, <1>4, <1>5, <1>6 DEF AllMarks

\* There are no more entries than bytes.
LEMMA FewEntries ==
  ASSUME NEW cuts, NEW size \in Nat, NEW len \in Nat, NEW s, AllMarks(cuts, size, s, len)
  PROVE  len \in 1 .. size
<1>1. len - 1 <= s[len] /\ s[len] = size - 1 /\ len >= 1
  BY DEF AllMarks, Rising
<1> QED
  BY <1>1

\* Moving an entry from one stream to the other.
LEMMA MoveHead ==
  ASSUME NEW s \in Seq(Int), NEW t \in Seq(Int), t # << >>
  PROVE  /\ Append(s, Head(t)) \in Seq(Int) /\ Tail(t) \in Seq(Int)
         /\ Append(s, Head(t)) \o Tail(t) = s \o t
<1>1. Len(t) \in Nat \ {0} /\ Head(t) = t[1] /\ t[1] \in Int
  OBVIOUS
<1>2. Append(s, Head(t)) \in Seq(Int) /\ Tail(t) \in Seq(Int)
  BY <1>1
<1> DEFINE u == Append(s, Head(t))
           v == Tail(t)
<1>3. /\ Len(u) = Len(s) + 1 /\ Len(v) = Len(t) - 1
      /\ Len(u \o v) = Len(s) + Len(t) /\ Len(s \o t) = Len(s) + Len(t)
      /\ u \o v \in Seq(Int) /\ s \o t \in Seq(Int)
  BY <1>1, <1>2
<1>4. ASSUME NEW k \in 1 .. Len(s) + Len(t)
      PROVE  (u \o v)[k] = (s \o t)[k]
  <2>1. CASE k <= Len(s)
    BY <1>1, <1>3, <2>1
  <2>2. CASE k = Len(s) + 1
    BY <1>1, <1>3, <2>2
  <2>3. CASE k > Len(s) + 1
    <3>1. (u \o v)[k] = v[k - (Len(s) + 1)]
      BY <1>1, <1>2, <1>3, <2>3
    <3>2. v[k - (Len(s) + 1)] = t[k - Len(s)]
      BY <1>1, <1>3, <2>3
    <3> QED
      BY <1>1, <2>3, <3>1, <3>2
  <2> QED
    BY <2>1, <2>2, <2>3
<1>5. u \o v = s \o t
  BY <1>3, <1>4, SeqEqual
<1> QED
  BY <1>2, <1>5

\* Only the first entries matter.
LEMMA SameEntries ==
  ASSUME NEW cuts, NEW size, NEW len \in Nat, NEW s, NEW t,
         AllMarks(cuts, size, s, len), \A k \in 1 .. len : t[k] = s[k]
  PROVE  AllMarks(cuts, size, t, len)
<1>1. t[len] = s[len]
  BY DEF AllMarks
<1>2. Rising(t, len)
  BY DEF AllMarks, Rising
<1>3. Finds(cuts, t, len, size - WIN_SIZE - 2)
  BY DEF AllMarks, Finds
<1>4. \A k \in 1 .. len - 1 : t[k] \in WIN_SIZE + k - 2 .. size - WIN_SIZE - 2
  BY DEF AllMarks
<1> QED
  BY <1>1, <1>2, <1>3, <1>4 DEF AllMarks

-----------------------------------------------------------------------------
(* The invariant is inductive.                                             *)

LEMMA InvInit == HostInit => HostInv
<1> SUFFICES ASSUME HostInit, buff_size >= WIN_SIZE
             PROVE  HostType /\ Pipeline /\ Progress /\ Between
  BY DEF HostInv, HostInit, CdcInit
<1>1. WIN_SIZE \in Nat
  BY CdcAssumption DEF CdcAssumption
<1>2. HostType
  <2>1. input_buf \in [ Position -> Byte ]
    <3>1. PICK bytes \in Received : packet = [ k \in Position |-> bytes[k] ]
      BY DEF HostInit
    <3>2. bytes \in [ 0 .. MEMORY - 1 -> Byte ]
      BY <3>1, HostKernelAssumption DEF HostKernelAssumption
    <3>3. Position \subseteq 0 .. MEMORY - 1
      BY LimitIs, CdcAssumption DEF Position, CdcAssumption, HostInit, CdcInit
    <3> QED
      BY <3>1, <3>2, <3>3 DEF HostInit
  <2>2. buff \in [ 0 .. MEMORY - 1 -> Byte ] /\ krnl \in {"cdc", "cdc0"}
    BY HostKernelAssumption DEF HostInit, HostKernelAssumption
  <2> QED
    BY <1>1, <2>1, <2>2 DEF HostInit, CdcInit, StreamInit, HostType
<1>3. Pipeline
  BY DEF HostInit, CdcInit, Pipeline
<1>4. Progress
  BY DEF HostInit, CdcInit, StreamInit, Progress
<1>5. Between
  BY DEF HostInit, Between
<1> QED
  BY <1>2, <1>3, <1>4, <1>5

\* Steps of the host: the arrays it sets up, the commands it enqueues, and the
\* loop behind q.finish().
LEMMA HostStepInv ==
  ASSUME buff_size >= WIN_SIZE, HostType, Pipeline, Progress, Between, HostStep
  PROVE  HostType' /\ Pipeline' /\ Progress' /\ Between'
<1>1. /\ UNCHANGED << buff, buff_size, i, hash, chunk_q, kernel >>
      /\ UNCHANGED << inStream, outStream, window, offset >>
      /\ krnl' = krnl
  BY DEF HostStep, Fill, MapBuffers, Enqueue, Finish, LoopWhen, PopChunk, PopEnd, cdcVars, streamVars
<1>2. Progress'
  <2>1. CutSet' = CutSet
    BY <1>1 DEF CutSet, Window
  <2> QED
    BY <1>1, <2>1 DEF Progress
<1>3. CASE Fill
  <2>1. /\ pc = "fill" /\ pc' = "map" /\ q_index' = [ k \in Position |-> -1 ]
        /\ UNCHANGED << enqueued, completed, index, chunks, input_buf >>
    BY <1>3 DEF Fill, commandVars, loopVars
  <2>2. HostType'
    BY <1>1, <2>1 DEF HostType, Position
  <2>3. Pipeline'
    BY <1>1, <2>1 DEF Pipeline
  <2>4. Between'
    BY <2>1 DEF Between
  <2> QED
    BY <1>2, <2>2, <2>3, <2>4
<1>4. CASE MapBuffers
  <2>1. /\ pc = "map" /\ pc' = "enqueue"
        /\ \E f \in MappedFill : q_index' = [ k \in Position |-> f ]
        /\ UNCHANGED << enqueued, completed, index, chunks >>
    BY <1>4 DEF MapBuffers, commandVars, loopVars
  <2>2. HostType'
    <3>1. q_index' \in [ Position -> Int ]
      BY <2>1, HostKernelAssumption DEF HostKernelAssumption
    <3>2. input_buf' \in [ Position -> Byte ]
      BY <1>4 DEF MapBuffers
    <3> QED
      BY <1>1, <2>1, <3>1, <3>2 DEF HostType, Position
  <2>3. Pipeline'
    BY <1>1, <2>1 DEF Pipeline
  <2>4. Between'
    BY <2>1 DEF Between
  <2> QED
    BY <1>2, <2>2, <2>3, <2>4
<1>5. CASE Enqueue
  <2>1. /\ pc = "enqueue" /\ enqueued < 3 /\ enqueued' = enqueued + 1
        /\ UNCHANGED << completed, pc, index, chunks, input_buf, q_index >>
    BY <1>5 DEF Enqueue, loopVars, Commands
  <2>2. HostType'
    BY <1>1, <2>1 DEF HostType, Position
  <2>3. (Uploaded' <=> Uploaded) /\ (Downloaded' <=> Downloaded)
    BY <1>1, <2>1 DEF Uploaded, Downloaded, Position
  <2>4. Pipeline'
    BY <1>1, <2>1, <2>3 DEF Pipeline
  <2>5. Between'
    BY <2>1 DEF Between
  <2> QED
    BY <1>2, <2>2, <2>4, <2>5
<1>6. CASE Finish
  <2>1. /\ pc = "enqueue" /\ enqueued = 3 /\ completed = enqueued /\ pc' = "pop"
        /\ UNCHANGED << enqueued, completed, index, chunks, input_buf, q_index >>
    BY <1>6 DEF Finish, LoopWhen, commandVars, loopVars, Commands
  <2>2. HostType'
    BY <1>1, <2>1 DEF HostType, Position
  <2>3. (Uploaded' <=> Uploaded) /\ (Downloaded' <=> Downloaded)
    BY <1>1, <2>1 DEF Uploaded, Downloaded, Position
  <2>4. Pipeline'
    BY <1>1, <2>1, <2>3 DEF Pipeline
  <2>5. Between'
    BY <2>1 DEF Between
  <2> QED
    BY <1>2, <2>2, <2>4, <2>5
<1>7. CASE PopChunk
  <2>1. /\ pc = "pop" /\ index < buff_size
        /\ chunks' = Append(chunks, << chunk_end_pos + 1, q_index[index] >>)
        /\ index' = index + 1
        /\ UNCHANGED << enqueued, completed, pc, input_buf, q_index >>
    BY <1>7 DEF PopChunk, commandVars
  <2>2. index \in Nat /\ index = Len(chunks) /\ q_index \in [ Position -> Int ]
        /\ chunks \in Seq(Int \X Int)
    BY <2>1 DEF HostType
  <2>3. q_index[index] \in Int
    BY <2>1, <2>2, LimitIs DEF HostType, Position
  <2>4. chunk_end_pos \in Int
        /\ chunk_end_pos = IF Len(chunks) = 0 THEN -1 ELSE chunks[Len(chunks)][2]
    <3>1. CASE chunks = << >>
      BY <3>1 DEF chunk_end_pos
    <3>2. CASE chunks # << >>
      <4>1. Len(chunks) \in 1 .. Len(chunks)
        BY <2>2, <3>2
      <4>2. chunks[Len(chunks)] \in Int \X Int
        BY <2>2, <4>1
      <4> QED
        BY <2>2, <3>2, <4>1, <4>2 DEF chunk_end_pos
    <3> QED
      BY <3>1, <3>2
  <2>5. HostType'
    <3>1. chunks' \in Seq(Int \X Int) /\ index' = Len(chunks')
      BY <2>1, <2>2, <2>3, <2>4
    <3> QED
      BY <1>1, <2>1, <3>1 DEF HostType, Position
  <2>6. Pipeline'
    BY <1>1, <2>1 DEF Pipeline, Uploaded, Downloaded, Position
  <2>7. Between'
    <3> SUFFICES ASSUME NEW k \in 1 .. Len(chunks')
                 PROVE  /\ chunks'[k][1] = IF k = 1 THEN 0 ELSE chunks'[k - 1][2] + 1
                        /\ chunks'[k][2] = q_index[k - 1]
      BY <2>1 DEF Between
    <3>1. /\ Len(chunks') = Len(chunks) + 1
          /\ \A n \in 1 .. Len(chunks) : chunks'[n] = chunks[n]
          /\ chunks'[Len(chunks) + 1] = << chunk_end_pos + 1, q_index[index] >>
      BY <2>1, <2>2, <2>3, <2>4
    <3>2. CASE k <= Len(chunks)
      BY <3>1, <3>2 DEF Between
    <3>3. CASE k = Len(chunks) + 1
      <4>1. CASE k = 1
        <5>0. Len(chunks) = 0 /\ index = 0 /\ chunk_end_pos = -1
          BY <2>2, <2>4, <3>3, <4>1
        <5>2. chunk_end_pos + 1 = 0
          BY <5>0
        <5>1. chunks'[k] = << 0, q_index[index] >>
          BY <3>1, <3>3, <5>2, Zenon
        <5> QED
          BY <2>2, <3>3, <4>1, <5>0, <5>1
      <4>2. CASE k > 1
        <5>1. Len(chunks) \in 1 .. Len(chunks) /\ Len(chunks) # 0
          BY <2>2, <3>3, <4>2
        <5>2. chunks'[k - 1] = chunks[Len(chunks)]
          BY <2>2, <3>1, <3>3, <5>1
        <5> QED
          BY <2>2, <2>4, <3>1, <3>3, <4>2, <5>1, <5>2
      <4> QED
        BY <2>2, <3>3, <4>1, <4>2
    <3> QED
      BY <2>2, <3>1, <3>2, <3>3
  <2> QED
    BY <1>2, <2>5, <2>6, <2>7
<1>8. CASE PopEnd
  <2>1. /\ pc = "pop" /\ pc' \in {"end", "crashed"}
        /\ UNCHANGED << enqueued, completed, index, chunks, input_buf, q_index >>
    BY <1>8 DEF PopEnd, commandVars, loopVars
  <2>2. HostType'
    BY <1>1, <2>1 DEF HostType, Position
  <2>3. Pipeline'
    BY <1>1, <2>1 DEF Pipeline, Uploaded, Downloaded, Position
  <2>4. Between'
    BY <2>1 DEF Between
  <2> QED
    BY <1>2, <2>2, <2>3, <2>4
<1> QED
  BY <1>3, <1>4, <1>5, <1>6, <1>7, <1>8 DEF HostStep

\* Steps of the command queue.
LEMMA QueueStepInv ==
  ASSUME buff_size >= WIN_SIZE, HostType, Pipeline, Progress, Between, QueueStep
  PROVE  HostType' /\ Pipeline' /\ Progress' /\ Between'
<1>1. /\ UNCHANGED << buff_size, i, chunk_q, outStream, krnl, input_buf, enqueued, pc, index, chunks >>
      /\ completed < enqueued
  BY DEF QueueStep, MigrateIn, StartTask, CompleteTask, MigrateOut, Running,
         cdcVars, streamVars, hostVars, commandVars, loopVars
<1>2. pc = "enqueue" /\ Len(chunks) = 0 /\ chunks \in Seq(Int \X Int)
  <2>1. pc = "enqueue" /\ chunks \in Seq(Int \X Int)
    BY <1>1 DEF HostType, Pipeline
  <2>2. 1 \notin 1 .. Len(chunks)
    BY <2>1 DEF Between
  <2> QED
    BY <2>1, <2>2
<1>3. Between'
  BY <1>1, <1>2 DEF Between
<1>4. /\ q_index \in [ Position -> Int ]
      /\ Len(chunk_q) \in Nat /\ chunk_q \in Seq(Int)
      /\ buff_size \in Nat
  BY <1>2, LimitIs DEF HostType
<1>c. /\ Commands[1] = "migrate in" /\ Commands[2] = "task" /\ Commands[3] = "migrate out"
      /\ completed = 0 \/ completed = 1 \/ completed = 2
  BY <1>1 DEF Pipeline, Commands
<1>d. /\ completed = 0 => Commands[completed + 1] = "migrate in"
      /\ completed = 1 => Commands[completed + 1] = "task"
      /\ completed = 2 => Commands[completed + 1] = "migrate out"
  <2>1. /\ completed = 0 => completed + 1 = 1
        /\ completed = 1 => completed + 1 = 2
        /\ completed = 2 => completed + 1 = 3
    OBVIOUS
  <2> QED
    BY <1>c, <2>1, Zenon
<1>5. CASE MigrateIn
  <2>1. /\ completed' = completed + 1 /\ Commands[completed + 1] = "migrate in"
        /\ buff' = [ k \in DOMAIN buff |-> IF k \in Position THEN input_buf[k] ELSE buff[k] ]
        /\ UNCHANGED << kernel, q_index >>
    BY <1>5 DEF MigrateIn, Running
  <2>2. completed = 0
    BY <1>c, <1>d, <2>1
  <2>3. kernel = "idle" /\ Progress'
    BY <1>1, <2>1, <2>2 DEF Pipeline, Progress
  <2>4. HostType'
    <3>1. buff' \in [ 0 .. MEMORY - 1 -> Byte ]
      BY <2>1 DEF HostType
    <3> QED
      BY <1>1, <2>1, <3>1 DEF HostType, Position
  <2>5. Uploaded'
    <3>1. DOMAIN buff = 0 .. MEMORY - 1
      BY DEF HostType
    <3>2. Position \subseteq DOMAIN buff
      BY <1>4, <3>1, LimitIs, CdcAssumption DEF HostType, Position, CdcAssumption
    <3> QED
      BY <1>1, <2>1, <3>2 DEF Uploaded, Position
  <2>6. Pipeline'
    <3>1. completed' = 1 /\ pc' = "enqueue" /\ kernel' = kernel /\ enqueued' \in 1 .. 3
      <4>1. completed' = completed + 1
        BY <2>1, Zenon
      <4>2. completed' = 1
        BY <2>2, <4>1
      <4>3. kernel' = kernel
        BY <2>1, Zenon
      <4> QED
        BY <1>1, <1>2, <2>2, <4>2, <4>3 DEF Pipeline
    <3> QED
      BY <2>5, <3>1 DEF Pipeline
  <2> QED
    BY <1>3, <2>3, <2>4, <2>6
<1>6. CASE StartTask
  <2>1. /\ Commands[completed + 1] = "task" /\ kernel = "idle"
        /\ kernel' = IF krnl = "cdc" THEN "scan" ELSE "read"
        /\ UNCHANGED << completed, buff, q_index >>
    BY <1>6 DEF StartTask, Running, hostVars, commandVars
  <2>2. completed = 1
    BY <1>c, <1>d, <2>1
  <2>3. Pipeline'
    BY <1>1, <1>2, <2>1, <2>2 DEF Pipeline, Uploaded, Position
  <2>4. HostType'
    BY <1>1, <2>1 DEF HostType, Position
  <2>5. i = WIN_SIZE /\ chunk_q = << >> /\ outStream = << >>
    BY <2>1 DEF Progress
  <2>6. Marks(CutSet', buff_size', chunk_q', Len(chunk_q'), i')
    BY <1>1, <1>4, <2>5, NoMarks
  <2>7. Progress'
    BY <1>1, <2>1, <2>5, <2>6 DEF Progress, HostType
  <2> QED
    BY <1>3, <2>3, <2>4, <2>7
<1>7. CASE CompleteTask
  <2>1. /\ Commands[completed + 1] = "task" /\ kernel = "done"
        /\ completed' = completed + 1
        /\ UNCHANGED << kernel, buff, q_index, i >>
    BY <1>7 DEF CompleteTask, Running, cdcVars
  <2>2. completed = 1
    BY <1>c, <1>d, <2>1
  <2>3. Pipeline'
    BY <1>1, <1>2, <2>1, <2>2 DEF Pipeline, Uploaded, Position
  <2>4. HostType'
    BY <1>1, <2>1 DEF HostType, Position
  <2>5. CutSet' = CutSet
    BY <1>1, <2>1 DEF CutSet, Window
  <2>6. Progress'
    BY <1>1, <2>1, <2>5 DEF Progress
  <2> QED
    BY <1>3, <2>3, <2>4, <2>6
<1>8. CASE MigrateOut
  <2>1. /\ Commands[completed + 1] = "migrate out"
        /\ completed' = completed + 1
        /\ q_index' = [ k \in Position |-> IF k < Len(chunk_q) THEN chunk_q[k + 1] ELSE q_index[k] ]
        /\ UNCHANGED << kernel, buff >>
    BY <1>8 DEF MigrateOut, Running, cdcVars
  <2>2. completed = 2
    BY <1>c, <1>d, <2>1
  <2>3. kernel = "done" /\ AllMarks(CutSet, buff_size, chunk_q, Len(chunk_q))
    BY <2>2 DEF Pipeline, Progress
  <2>4. Len(chunk_q) \in 1 .. buff_size
    BY <1>4, <2>3, FewEntries
  <2>5. Downloaded'
    <3> SUFFICES ASSUME NEW k \in 1 .. Len(chunk_q)
                 PROVE  q_index'[k - 1] = chunk_q[k]
      BY <1>1 DEF Downloaded
    <3>1. k - 1 \in Position /\ k - 1 < Len(chunk_q) /\ (k - 1) + 1 = k
      BY <1>4, <2>4 DEF Position
    <3>2. q_index'[k - 1] = IF k - 1 < Len(chunk_q) THEN chunk_q[(k - 1) + 1] ELSE q_index[k - 1]
      BY <2>1, <3>1
    <3> QED
      BY <3>1, <3>2
  <2>6. Pipeline'
    <3>1. completed' = 3 /\ pc' = "enqueue" /\ kernel' = "done" /\ enqueued' = 3
      <4>1. completed' = completed + 1
        BY <2>1, Zenon
      <4>2. completed' = 3
        BY <2>2, <4>1
      <4>3. kernel' = kernel
        BY <2>1, Zenon
      <4> QED
        BY <1>1, <1>2, <2>2, <2>3, <4>2, <4>3 DEF Pipeline
    <3>2. Uploaded'
      <4>1. Uploaded
        BY <2>2 DEF Pipeline
      <4> QED
        BY <1>1, <2>1, <4>1 DEF Uploaded, Position
    <3> QED
      BY <2>5, <3>1, <3>2 DEF Pipeline
  <2>7. HostType'
    <3>1. q_index' \in [ Position -> Int ]
      <4> SUFFICES ASSUME NEW k \in Position
                   PROVE  (IF k < Len(chunk_q) THEN chunk_q[k + 1] ELSE q_index[k]) \in Int
        BY <2>1
      <4>1. k < Len(chunk_q) => k + 1 \in 1 .. Len(chunk_q)
        BY <1>4 DEF Position
      <4> QED
        BY <1>4, <4>1
    <3> QED
      BY <1>1, <2>1, <3>1 DEF HostType, Position
  <2>8. CutSet' = CutSet
    BY <1>1, <2>1 DEF CutSet, Window
  <2>9. Progress'
    BY <1>1, <2>1, <2>8 DEF Progress
  <2> QED
    BY <1>3, <2>6, <2>7, <2>9
<1> QED
  BY <1>5, <1>6, <1>7, <1>8 DEF QueueStep

\* Steps of cdc.
LEMMA CdcStepInv ==
  ASSUME buff_size >= WIN_SIZE, HostType, Pipeline, Progress, Between, CdcRuns
  PROVE  HostType' /\ Pipeline' /\ Progress' /\ Between'
<1>1. /\ UNCHANGED << packet, krnl, input_buf, q_index, enqueued, completed, pc, index, chunks >>
      /\ UNCHANGED << inStream, outStream, window, offset, buff, buff_size >>
      /\ kernel = "scan"
  BY DEF CdcRuns, CdcStep, Scan, Turn, ScanOutside, LastChunk, Last,
         hostVars, commandVars, loopVars, streamVars
<1>2. /\ Limit = buff_size - WIN_SIZE /\ buff_size \in Nat /\ buff_size >= 1 /\ buff_size <= MEMORY
      /\ WIN_SIZE \in Nat /\ MEMORY \in Nat /\ i \in Nat /\ i >= WIN_SIZE
      /\ chunk_q \in Seq(Int)
  BY LimitIs, CdcAssumption DEF HostType, CdcAssumption
<1>3. krnl = "cdc" /\ Marks(CutSet, buff_size, chunk_q, Len(chunk_q), i)
  BY <1>1 DEF Progress
<1>4. CutSet' = CutSet
  BY <1>1 DEF CutSet, Window
<1>5. completed = 1
  BY <1>1 DEF Pipeline
<1>6. Pipeline' /\ Between'
  <2>1. Pipeline'
    BY <1>1, <1>5 DEF Pipeline, Uploaded, Position
  <2> QED
    BY <1>1, <2>1 DEF Between
<1>7. CASE Scan
  <2>1. /\ i < Limit /\ i' = i + 1 /\ kernel' = kernel
        /\ chunk_q' = chunk_q \o Boundaries(Hash(Window(i), 0 .. WIN_SIZE - 1))
    BY <1>7 DEF Scan, Turn
  <2>2. chunk_q' = IF i - 1 \in CutSet THEN Append(chunk_q, i - 1) ELSE chunk_q
    <3>1. i - 1 \in Nat /\ (i - 1) + 1 = i
      BY <1>2, CdcAssumption DEF CdcAssumption
    <3>2. i - 1 \in CutSet <=> Hash(Window(i), 0 .. WIN_SIZE - 1) % MODULUS = TARGET
      BY <1>3, <3>1 DEF CutSet
    <3> QED
      BY <1>2, <2>1, <3>1, <3>2 DEF Boundaries
  <2>3. chunk_q' \in Seq(Int) /\ Marks(CutSet, buff_size, chunk_q', Len(chunk_q'), i + 1)
    BY <1>2, <1>3, <2>1, <2>2, NextMark
  <2>4. HostType'
    BY <1>1, <1>2, <2>1, <2>3 DEF HostType, Position
  <2>5. Progress'
    BY <1>1, <1>3, <1>4, <2>1, <2>3 DEF Progress
  <2> QED
    BY <1>6, <2>4, <2>5
<1>8. CASE ScanOutside
  BY <1>2, <1>8 DEF ScanOutside
<1>9. CASE LastChunk
  <2>1. /\ i >= Limit /\ i' = i /\ kernel' = "done"
        /\ chunk_q' = Append(chunk_q, buff_size - 1)
    BY <1>9 DEF LastChunk, Last
  <2>2. /\ chunk_q' \in Seq(Int) /\ Len(chunk_q') = Len(chunk_q) + 1
        /\ \A k \in 1 .. Len(chunk_q) : chunk_q'[k] = chunk_q[k]
        /\ chunk_q'[Len(chunk_q) + 1] = buff_size - 1
    BY <1>2, <2>1
  <2>3. AllMarks(CutSet, buff_size, chunk_q', Len(chunk_q) + 1)
    BY <1>2, <1>3, <2>1, <2>2, LastMark
  <2>4. HostType'
    BY <1>1, <2>1, <2>2 DEF HostType, Position
  <2>5. Progress'
    BY <1>1, <1>4, <2>1, <2>2, <2>3 DEF Progress
  <2> QED
    BY <1>6, <2>4, <2>5
<1> QED
  BY <1>7, <1>8, <1>9 DEF CdcRuns, CdcStep

\* Steps of cdc0.
LEMMA StreamStepInv ==
  ASSUME buff_size >= WIN_SIZE, HostType, Pipeline, Progress, Between, StreamRuns
  PROVE  HostType' /\ Pipeline' /\ Progress' /\ Between'
<1>1. /\ UNCHANGED << packet, krnl, input_buf, q_index, enqueued, completed, pc, index, chunks >>
      /\ UNCHANGED << buff, buff_size >>
      /\ kernel \in {"read", "fetch", "exec", "write"}
  BY DEF StreamRuns, StreamStep, ReadBuff, Fetch, Exec, ExecLast, Write, WriteLast,
         hostVars, commandVars, loopVars
<1>2. /\ Limit = buff_size - WIN_SIZE /\ buff_size \in Nat /\ buff_size >= 1
      /\ WIN_SIZE \in Nat /\ WIN_SIZE >= 1 /\ i \in Nat /\ i >= WIN_SIZE
      /\ chunk_q \in Seq(Int) /\ outStream \in Seq(Int)
  BY LimitIs DEF HostType
<1>3. krnl = "cdc0"
  BY <1>1 DEF Progress
<1>4. CutSet' = CutSet
  BY <1>1 DEF CutSet, Window
<1>5. completed = 1
  BY <1>1 DEF Pipeline
<1>6. Pipeline' /\ Between'
  <2>1. Pipeline'
    BY <1>1, <1>5 DEF Pipeline, Uploaded, Position
  <2> QED
    BY <1>1, <2>1 DEF Between
<1>7. CASE ReadBuff
  <2>1. kernel = "read" /\ kernel' = "fetch" /\ UNCHANGED << i, chunk_q, outStream >>
    BY <1>7 DEF ReadBuff
  <2>2. HostType' /\ Progress'
    BY <1>1, <1>3, <2>1 DEF HostType, Position, Progress
  <2> QED
    BY <1>6, <2>2
<1>8. CASE Fetch
  <2>1. kernel = "fetch" /\ kernel' = "exec" /\ UNCHANGED << i, chunk_q, outStream >>
    BY <1>8 DEF Fetch
  <2>2. i = WIN_SIZE /\ chunk_q = << >> /\ outStream = << >>
    BY <2>1 DEF Progress
  <2>3. Marks(CutSet', buff_size', outStream', Len(outStream'), i')
    BY <1>1, <1>2, <2>1, <2>2, NoMarks
  <2>4. HostType' /\ Progress'
    BY <1>1, <1>3, <2>1, <2>2, <2>3 DEF HostType, Position, Progress
  <2> QED
    BY <1>6, <2>4
<1>9. CASE Exec
  <2>1. /\ kernel = "exec" /\ kernel' = kernel /\ i < Limit /\ i' = i + 1 /\ chunk_q' = chunk_q
        /\ hash' = Hash(window', i .. WIN_SIZE - 1)
        /\ outStream' = outStream \o Boundaries(hash')
    BY <1>9 DEF Exec
  <2>2. Marks(CutSet, buff_size, outStream, Len(outStream), i)
    BY <2>1 DEF Progress
  <2>3. hash' = Hash(<< >>, {})
    <3>1. i .. WIN_SIZE - 1 = {}
      BY <1>2
    <3> QED
      BY <2>1, <3>1 DEF Hash
  <2>4. outStream' = IF i - 1 \in CutSet THEN Append(outStream, i - 1) ELSE outStream
    <3>1. i - 1 \in Nat
      BY <1>2
    <3>2. i - 1 \in CutSet <=> hash' % MODULUS = TARGET
      BY <1>3, <2>3, <3>1 DEF CutSet
    <3> QED
      BY <1>2, <2>1, <3>1, <3>2 DEF Boundaries
  <2>5. outStream' \in Seq(Int) /\ Marks(CutSet, buff_size, outStream', Len(outStream'), i + 1)
    BY <1>2, <2>1, <2>2, <2>4, NextMark
  <2>6. HostType'
    BY <1>1, <1>2, <2>1, <2>5 DEF HostType, Position
  <2>7. chunk_q = << >>
    BY <2>1 DEF Progress
  <2>8. Progress'
    BY <1>1, <1>3, <1>4, <2>1, <2>5, <2>7 DEF Progress
  <2> QED
    BY <1>6, <2>6, <2>8
<1>10. CASE ExecLast
  <2>1. /\ kernel = "exec" /\ kernel' = "write" /\ i >= Limit /\ i' = i /\ chunk_q' = chunk_q
        /\ outStream' = outStream \o << buff_size - 1, -1 >>
    BY <1>10 DEF ExecLast
  <2>2. chunk_q = << >> /\ Marks(CutSet, buff_size, outStream, Len(outStream), i)
    BY <2>1 DEF Progress
  <2>3. /\ outStream' \in Seq(Int) /\ Len(outStream') = Len(outStream) + 2
        /\ \A k \in 1 .. Len(outStream) : outStream'[k] = outStream[k]
        /\ outStream'[Len(outStream) + 1] = buff_size - 1
        /\ outStream'[Len(outStream) + 2] = -1
    BY <1>2, <2>1
  <2>4. AllMarks(CutSet, buff_size, outStream', Len(outStream) + 1)
    BY <1>2, <2>1, <2>2, <2>3, LastMark
  <2>5. chunk_q' \o outStream' = outStream'
    BY <2>1, <2>2, <2>3
  <2>6. HostType'
    BY <1>1, <2>1, <2>3 DEF HostType, Position
  <2>7. Progress'
    <3>1. Len(outStream') - 1 = Len(outStream) + 1 /\ Len(outStream') >= 1
          /\ outStream'[Len(outStream')] = -1
      BY <1>2, <2>3
    <3> QED
      BY <1>1, <1>3, <1>4, <2>1, <2>4, <2>5, <3>1 DEF Progress
  <2> QED
    BY <1>6, <2>6, <2>7
<1>11. CASE Write
  <2>1. /\ kernel = "write" /\ kernel' = kernel /\ outStream # << >> /\ Head(outStream) # -1
        /\ chunk_q' = Append(chunk_q, Head(outStream)) /\ outStream' = Tail(outStream)
        /\ i' = i
    BY <1>11 DEF Write
  <2> DEFINE s == chunk_q \o outStream
  <2>2. s[Len(s)] = -1 /\ AllMarks(CutSet, buff_size, s, Len(s) - 1)
    BY <2>1 DEF Progress
  <2>3. /\ chunk_q' \in Seq(Int) /\ outStream' \in Seq(Int)
        /\ chunk_q' \o outStream' = s
    BY <1>2, <2>1, MoveHead
  <2>4. Len(outStream') >= 1
    <3>1. Len(s) = Len(chunk_q) + Len(outStream) /\ s[Len(chunk_q) + 1] = Head(outStream)
          /\ Len(outStream) \in Nat \ {0}
      BY <1>2, <2>1
    <3>2. Len(outStream) # 1
      BY <2>1, <2>2, <3>1
    <3>3. Len(outStream') = Len(outStream) - 1
      BY <1>2, <2>1
    <3> QED
      BY <3>1, <3>2, <3>3
  <2>5. HostType'
    BY <1>1, <2>1, <2>3 DEF HostType, Position
  <2>6. Progress'
    BY <1>1, <1>3, <1>4, <2>1, <2>2, <2>3, <2>4 DEF Progress
  <2> QED
    BY <1>6, <2>5, <2>6
<1>12. CASE WriteLast
  <2>1. /\ kernel = "write" /\ kernel' = "done" /\ outStream # << >> /\ Head(outStream) = -1
        /\ chunk_q' = chunk_q /\ outStream' = Tail(outStream) /\ i' = i
    BY <1>12 DEF WriteLast
  <2> DEFINE s == chunk_q \o outStream
  <2>2. AllMarks(CutSet, buff_size, s, Len(s) - 1)
    BY <2>1 DEF Progress
  <2>3. /\ Len(s) = Len(chunk_q) + Len(outStream) /\ Len(outStream) \in Nat \ {0}
        /\ s[Len(chunk_q) + 1] = -1 /\ Len(chunk_q) \in Nat
        /\ \A k \in 1 .. Len(chunk_q) : s[k] = chunk_q[k]
    BY <1>2, <2>1
  <2>4. Len(chunk_q) = Len(s) - 1
    <3>1. \A k \in 1 .. Len(s) - 1 : s[k] \in 0 .. buff_size - 1
      BY <2>2 DEF AllMarks
    <3>2. Len(chunk_q) + 1 \notin 1 .. Len(s) - 1
      BY <2>3, <3>1
    <3> QED
      BY <2>3, <3>2
  <2>5. AllMarks(CutSet, buff_size, chunk_q, Len(chunk_q))
    BY <2>2, <2>3, <2>4, SameEntries
  <2>6. HostType'
    BY <1>1, <1>2, <2>1 DEF HostType, Position
  <2>7. Progress'
    BY <1>1, <1>4, <2>1, <2>5 DEF Progress
  <2> QED
    BY <1>6, <2>6, <2>7
<1> QED
  BY <1>7, <1>8, <1>9, <1>10, <1>11, <1>12 DEF StreamRuns, StreamStep

LEMMA InvStep == HostInv /\ [HostNext]_allVars => HostInv'
<1>1. ASSUME [HostNext]_allVars PROVE buff_size' = buff_size
  BY <1>1
  DEF HostNext, HostStep, Fill, MapBuffers, Enqueue, Finish, LoopWhen, PopChunk, PopEnd,
      QueueStep, MigrateIn, StartTask, CompleteTask, MigrateOut,
      CdcRuns, CdcStep, Scan, Turn, ScanOutside, LastChunk, Last,
      StreamRuns, StreamStep, ReadBuff, Fetch, Exec, ExecLast, Write, WriteLast,
      allVars, cdcVars
<1> SUFFICES ASSUME HostInv, [HostNext]_allVars, buff_size' >= WIN_SIZE
             PROVE  HostType' /\ Pipeline' /\ Progress' /\ Between'
  BY <1>1 DEF HostInv
<1>2. buff_size >= WIN_SIZE /\ HostType /\ Pipeline /\ Progress /\ Between
  BY <1>1 DEF HostInv
<1>3. CASE UNCHANGED allVars
  <2>1. UNCHANGED << buff, buff_size, i, chunk_q, kernel, outStream, krnl, input_buf, q_index,
                     enqueued, completed, pc, index, chunks >>
    BY <1>3 DEF allVars, cdcVars, streamVars, hostVars, commandVars, loopVars
  <2>2. CutSet' = CutSet
    BY <2>1 DEF CutSet, Window
  <2> QED
    BY <1>2, <2>1, <2>2 DEF HostType, Position, Pipeline, Uploaded, Downloaded, Progress, Between
<1> QED
  BY <1>2, <1>3, HostStepInv, QueueStepInv, CdcStepInv, StreamStepInv DEF HostNext

-----------------------------------------------------------------------------
(* What follows from it.                                                   *)

\* In every state the commands, the kernel and the loop of encode() are where
\* the invariant has them.
THEOREM HostInvariant == HostSpec => []HostInv
<1> QED
  BY InvInit, InvStep, PTL DEF HostSpec

\* The loop behind q.finish() reads what the kernel wrote, and the kernel
\* computed it from the bytes that the loop goes on to use.
THEOREM LoopIsNotStale == HostSpec => []LoopSeesKernel
<1>1. HostInv => LoopSeesKernel
  <2> SUFFICES ASSUME HostInv, pc \in {"pop", "end", "crashed"}, buff_size >= WIN_SIZE
               PROVE  /\ kernel = "done"
                      /\ Len(chunk_q) \in 1 .. buff_size
                      /\ \A k \in 1 .. Len(chunk_q) : q_index[k - 1] = chunk_q[k]
                      /\ \A k \in Position : buff[k] = input_buf[k]
    BY DEF LoopSeesKernel
  <2>1. HostType /\ Pipeline /\ Progress
    BY DEF HostInv
  <2>2. kernel = "done" /\ Uploaded /\ Downloaded
    BY <2>1 DEF Pipeline
  <2>3. AllMarks(CutSet, buff_size, chunk_q, Len(chunk_q))
    BY <2>1, <2>2 DEF Progress
  <2>4. Len(chunk_q) \in 1 .. buff_size
    BY <2>1, <2>3, LimitIs, FewEntries DEF HostType
  <2> QED
    BY <2>2, <2>4 DEF Uploaded, Downloaded
<1> QED
  BY <1>1, HostInvariant, PTL

\* The entries of either kernel tile the packet, whatever the bytes are.
THEOREM ChunksTile == HostSpec => []TilesPacket
<1>1. HostInv => TilesPacket
  <2> SUFFICES ASSUME HostInv, buff_size >= WIN_SIZE
               PROVE  /\ \A k \in 1 .. Len(chunks) : k <= Len(chunk_q) =>
                           /\ chunks[k][1] = IF k = 1 THEN 0 ELSE chunks[k - 1][2] + 1
                           /\ chunks[k][1] <= chunks[k][2]
                           /\ chunks[k][2] < buff_size
                      /\ pc = "end" /\ Len(chunks) = Len(chunk_q) => chunk_end_pos = buff_size - 1
    BY DEF TilesPacket
  <2>1. HostType /\ Pipeline /\ Progress /\ Between
    BY DEF HostInv
  <2>2. /\ buff_size \in Nat /\ buff_size >= 1
        /\ Len(chunks) \in Nat /\ Len(chunk_q) \in Nat
    BY <2>1, LimitIs DEF HostType
  <2>3. pc \in {"pop", "end", "crashed"} =>
          Downloaded /\ AllMarks(CutSet, buff_size, chunk_q, Len(chunk_q))
    BY <2>1 DEF Pipeline, Progress
  <2>4. ASSUME NEW k \in 1 .. Len(chunks), k <= Len(chunk_q)
        PROVE  /\ chunks[k][1] = IF k = 1 THEN 0 ELSE chunks[k - 1][2] + 1
               /\ chunks[k][1] <= chunks[k][2]
               /\ chunks[k][2] < buff_size
    <3>1. /\ chunks[k][1] = IF k = 1 THEN 0 ELSE chunks[k - 1][2] + 1
          /\ chunks[k][2] = q_index[k - 1]
          /\ pc \in {"pop", "end", "crashed"}
      BY <2>1 DEF Between
    <3>2. k \in 1 .. Len(chunk_q)
      BY <2>2, <2>4
    <3>3. chunks[k][2] = chunk_q[k] /\ chunk_q[k] \in 0 .. buff_size - 1
      BY <2>3, <3>1, <3>2 DEF Downloaded, AllMarks
    <3>4. k > 1 => chunks[k - 1][2] = chunk_q[k - 1] /\ chunk_q[k - 1] < chunk_q[k]
                   /\ chunk_q[k - 1] \in 0 .. buff_size - 1
      <4> SUFFICES ASSUME k > 1
                   PROVE  chunks[k - 1][2] = chunk_q[k - 1] /\ chunk_q[k - 1] < chunk_q[k]
                          /\ chunk_q[k - 1] \in 0 .. buff_size - 1
        OBVIOUS
      <4>1. k - 1 \in 1 .. Len(chunks) /\ k - 1 \in 1 .. Len(chunk_q)
        BY <2>2, <3>2
      <4>2. chunks[k - 1][2] = q_index[(k - 1) - 1]
        BY <2>1, <4>1 DEF Between
      <4>3. q_index[(k - 1) - 1] = chunk_q[k - 1]
        BY <2>3, <3>1, <4>1 DEF Downloaded
      <4>4. chunk_q[k - 1] < chunk_q[k] /\ chunk_q[k - 1] \in 0 .. buff_size - 1
        BY <2>3, <3>1, <3>2, <4>1 DEF AllMarks, Rising
      <4> QED
        BY <4>2, <4>3, <4>4
    <3>5. chunks[k][1] <= chunks[k][2]
      <4>1. CASE k = 1
        BY <2>2, <3>1, <3>3, <4>1
      <4>2. CASE k > 1
        BY <2>2, <3>1, <3>3, <3>4, <4>2
      <4> QED
        BY <4>1, <4>2
    <3> QED
      BY <2>2, <3>1, <3>3, <3>5
  <2>5. ASSUME pc = "end", Len(chunks) = Len(chunk_q)
        PROVE  chunk_end_pos = buff_size - 1
    <3>1. Len(chunk_q) >= 1 /\ chunk_q[Len(chunk_q)] = buff_size - 1 /\ Downloaded
      BY <2>3, <2>5 DEF AllMarks
    <3>2. Len(chunks) \in 1 .. Len(chunks) /\ Len(chunk_q) \in 1 .. Len(chunk_q) /\ chunks # << >>
      BY <2>2, <2>5, <3>1
    <3>3. chunks[Len(chunks)][2] = q_index[Len(chunks) - 1]
      BY <2>1, <3>2 DEF Between
    <3>4. q_index[Len(chunk_q) - 1] = buff_size - 1
      BY <3>1, <3>2 DEF Downloaded
    <3> QED
      BY <2>5, <3>2, <3>3, <3>4 DEF chunk_end_pos
  <2> QED
    BY <2>4, <2>5
<1> QED
  BY <1>1, HostInvariant, PTL

\* Either kernel cuts equal windows equally, wherever in the packet they are.
THEOREM CutsDependOnContent == HostSpec => []CutsByContent
<1>1. HostInv => CutsByContent
  <2> SUFFICES ASSUME HostInv, kernel = "done",
                      NEW d \in WIN_SIZE - 1 .. buff_size - WIN_SIZE - 2,
                      NEW e \in WIN_SIZE - 1 .. buff_size - WIN_SIZE - 2,
                      Window(d + 1) = Window(e + 1)
               PROVE  Cut(d) <=> Cut(e)
    BY DEF CutsByContent
  <2>0. buff_size >= WIN_SIZE
    BY CdcAssumption DEF HostInv, CdcAssumption
  <2>1. AllMarks(CutSet, buff_size, chunk_q, Len(chunk_q))
    BY <2>0 DEF HostInv, Progress
  <2>2. (Cut(d) <=> d \in CutSet) /\ (Cut(e) <=> e \in CutSet)
    BY <2>1 DEF AllMarks, Finds, Cut
  <2>3. d \in Nat /\ e \in Nat
    BY <2>0, LimitIs DEF HostInv
  <2>4. d \in CutSet <=> e \in CutSet
    BY <2>3 DEF CutSet
  <2> QED
    BY <2>2, <2>4
<1> QED
  BY <1>1, HostInvariant, PTL

-----------------------------------------------------------------------------
(* Where the loop stops.                                                   *)

\* Behind the entries there is room for a terminator.
LEMMA RoomBehind ==
  ASSUME NEW cuts, NEW size \in Nat, size >= WIN_SIZE, NEW len \in Nat, NEW s,
         AllMarks(cuts, size, s, len)
  PROVE  len \in 1 .. size - 1
<1>1. WIN_SIZE \in Nat /\ WIN_SIZE >= 2 /\ len >= 1
  BY CdcAssumption DEF CdcAssumption, AllMarks
<1>2. CASE len = 1
  BY <1>1, <1>2
<1>3. CASE len > 1
  <2>1. s[len - 1] \in WIN_SIZE + (len - 1) - 2 .. size - WIN_SIZE - 2
    BY <1>1, <1>3 DEF AllMarks
  <2> QED
    BY <1>1, <1>3, <2>1
<1> QED
  BY <1>1, <1>2, <1>3

\* What the kernel looks at is what the host has.
LEMMA SameContent ==
  ASSUME buff_size \in PacketSizes, buff_size >= WIN_SIZE, Uploaded,
         NEW e \in WIN_SIZE - 1 .. buff_size - WIN_SIZE - 2
  PROVE  e \in CutSet <=> e \in ContentCuts
<1>1. WIN_SIZE \in Nat /\ WIN_SIZE >= 1 /\ buff_size \in Nat /\ e \in Nat
  BY LimitIs
<1>2. \A j \in 0 .. WIN_SIZE - 1 : e + 1 + j \in Position
  BY <1>1 DEF Position
<1>3. Window(e + 1) = [ j \in 0 .. WIN_SIZE - 1 |-> input_buf[e + 1 + j] ]
  BY <1>2, Zenon DEF Window, Uploaded
<1>4. e \in CutSet <=> ContentHash(e) % MODULUS = TARGET
  BY <1>1, <1>3 DEF CutSet, ContentHash
<1> QED
  BY <1>4 DEF ContentCuts

\* In the loop, the entries are the ends of the chunks of the packet.
LEMMA Entries ==
  ASSUME HostInv, buff_size >= WIN_SIZE, pc \in {"pop", "end", "crashed"}
  PROVE  /\ buff_size \in Nat /\ buff_size >= 1
         /\ Len(chunk_q) \in 1 .. buff_size - 1
         /\ chunk_q[Len(chunk_q)] = buff_size - 1
         /\ \A k \in 1 .. Len(chunk_q) :
              /\ q_index[k - 1] = chunk_q[k]
              /\ chunk_q[k] \in 0 .. buff_size - 1
              /\ Ch!IsEnd(chunk_q[k])
              /\ \A e \in (IF k = 1 THEN 0 ELSE chunk_q[k - 1] + 1) .. chunk_q[k] - 1 : ~Ch!IsEnd(e)
<1>1. HostType /\ Pipeline /\ Progress /\ buff_size \in PacketSizes
  BY DEF HostInv
<1>2. kernel = "done" /\ Uploaded /\ Downloaded
  BY <1>1 DEF Pipeline
<1>3. AllMarks(CutSet, buff_size, chunk_q, Len(chunk_q))
  BY <1>1, <1>2 DEF Progress
<1>4. /\ buff_size \in Nat /\ buff_size >= 1 /\ WIN_SIZE \in Nat /\ WIN_SIZE >= 1
      /\ Len(chunk_q) \in Nat
  BY <1>1, LimitIs DEF HostType
<1>5. Len(chunk_q) \in 1 .. buff_size - 1
  BY <1>3, <1>4, RoomBehind
<1> DEFINE len == Len(chunk_q)
           First == WIN_SIZE - 1
           Final == buff_size - WIN_SIZE - 2
<1>6. /\ chunk_q[len] = buff_size - 1
      /\ \A k \in 1 .. len - 1 : chunk_q[k] \in WIN_SIZE + k - 2 .. Final
      /\ \A k \in 1 .. len : chunk_q[k] \in 0 .. buff_size - 1
      /\ \A k \in 1 .. len : \A j \in 1 .. k - 1 : chunk_q[j] < chunk_q[k]
      /\ \A e \in First .. Final : e \in CutSet <=> \E k \in 1 .. len : chunk_q[k] = e
  BY <1>3 DEF AllMarks, Rising, Finds
<1>7. \A e : Ch!IsEnd(e) <=> e \in ContentCuts \/ e = buff_size - 1
  BY DEF Ch!IsEnd
<1>8. ASSUME NEW k \in 1 .. len
      PROVE  Ch!IsEnd(chunk_q[k])
  <2>1. CASE k = len
    BY <1>6, <1>7, <2>1
  <2>2. CASE k # len
    <3>1. chunk_q[k] \in First .. Final
      BY <1>4, <1>5, <1>6, <2>2
    <3>2. chunk_q[k] \in CutSet
      BY <1>6, <3>1
    <3> QED
      BY <1>1, <1>2, <1>7, <3>1, <3>2, SameContent
  <2> QED
    BY <2>1, <2>2
<1>9. ASSUME NEW k \in 1 .. len,
             NEW e \in (IF k = 1 THEN 0 ELSE chunk_q[k - 1] + 1) .. chunk_q[k] - 1,
             Ch!IsEnd(e)
      PROVE  FALSE
  <2>1. e \in Int /\ e < chunk_q[k] /\ e >= 0 /\ (k > 1 => e > chunk_q[k - 1])
    <3>1. CASE k = 1
      BY <1>4, <1>5, <1>6, <3>1
    <3>2. CASE k > 1
      <4>1. k - 1 \in 1 .. len /\ chunk_q[k - 1] \in 0 .. buff_size - 1
        BY <1>4, <1>5, <1>6, <3>2
      <4> QED
        BY <1>4, <1>5, <1>6, <3>2, <4>1
    <3> QED
      BY <1>4, <1>5, <3>1, <3>2
  <2>2. e < buff_size - 1
    BY <1>4, <1>6, <2>1
  <2>3. e \in ContentCuts
    BY <1>4, <1>7, <1>9, <2>1, <2>2
  <2>4. e \in First .. Final
    BY <2>3 DEF ContentCuts
  <2>5. PICK m \in 1 .. len : chunk_q[m] = e
    BY <1>1, <1>2, <1>6, <2>3, <2>4, SameContent
  <2>6. CASE m >= k
    BY <1>4, <1>5, <1>6, <2>1, <2>5, <2>6
  <2>7. CASE m < k
    <3>1. k > 1 /\ k - 1 \in 1 .. len /\ m \in 1 .. k - 1
      BY <1>4, <1>5, <2>7
    <3>2. m = k - 1 \/ m \in 1 .. (k - 1) - 1
      BY <3>1
    <3>3. chunk_q[m] <= chunk_q[k - 1]
      BY <1>4, <1>6, <3>1, <3>2
    <3> QED
      BY <1>4, <1>6, <2>1, <2>5, <3>1, <3>3
  <2> QED
    BY <1>4, <1>5, <2>6, <2>7
<1> QED
  BY <1>2, <1>4, <1>5, <1>6, <1>8, <1>9 DEF Downloaded

\* How far the loop is, and why it stopped.
StopInv ==
  buff_size >= WIN_SIZE =>
    /\ pc \notin {"pop", "end", "crashed"} => index = 0
    /\ pc \in {"pop", "end", "crashed"} =>
         /\ index \in 0 .. buff_size
         /\ \A k \in 0 .. index - 1 : q_index[k] # -1
    /\ pc = "end" => index < buff_size /\ q_index[index] = -1
    /\ pc = "crashed" => index = buff_size

LEMMA StopInit == HostInit => StopInv
<1> QED
  BY DEF HostInit, StopInv

LEMMA StopStep == HostInv /\ StopInv /\ [HostNext]_allVars => StopInv'
<1> SUFFICES ASSUME HostInv, StopInv, [HostNext]_allVars PROVE StopInv'
  OBVIOUS
<1>1. buff_size' = buff_size
  BY DEF HostNext, HostStep, Fill, MapBuffers, Enqueue, Finish, LoopWhen, PopChunk, PopEnd,
      QueueStep, MigrateIn, StartTask, CompleteTask, MigrateOut,
      CdcRuns, CdcStep, Scan, Turn, ScanOutside, LastChunk, Last,
      StreamRuns, StreamStep, ReadBuff, Fetch, Exec, ExecLast, Write, WriteLast,
      allVars, cdcVars
<1> SUFFICES ASSUME buff_size >= WIN_SIZE PROVE StopInv'
  BY <1>1 DEF StopInv
<1>2. /\ HostType /\ Pipeline /\ index \in Nat /\ buff_size \in Nat /\ buff_size >= 1
  <2>1. HostType /\ Pipeline /\ buff_size \in PacketSizes
    BY DEF HostInv
  <2>2. index \in Nat
    BY <2>1 DEF HostType
  <2> QED
    BY <2>1, <2>2, LimitIs
<1>3. CASE Fill \/ MapBuffers
  <2>1. pc \in {"fill", "map"} /\ pc' \in {"map", "enqueue"} /\ index' = index
    BY <1>3 DEF Fill, MapBuffers, loopVars
  <2> QED
    BY <1>1, <2>1 DEF StopInv
<1>4. CASE Enqueue
  <2>1. pc = "enqueue" /\ pc' = pc /\ index' = index
    BY <1>4 DEF Enqueue, loopVars
  <2> QED
    BY <1>1, <2>1 DEF StopInv
<1>5. CASE Finish
  <2>1. pc = "enqueue" /\ pc' = "pop" /\ index' = index
    BY <1>5 DEF Finish, LoopWhen, loopVars
  <2> QED
    BY <1>1, <1>2, <2>1 DEF StopInv
<1>6. CASE PopChunk
  <2>1. /\ pc = "pop" /\ pc' = pc /\ index' = index + 1 /\ q_index' = q_index
        /\ index < buff_size /\ q_index[index] # -1
    BY <1>6 DEF PopChunk
  <2>2. \A k \in 0 .. index' - 1 : k \in 0 .. index - 1 \/ k = index
    BY <1>2, <2>1
  <2> QED
    BY <1>1, <1>2, <2>1, <2>2 DEF StopInv
<1>7. CASE PopEnd
  <2>1. /\ pc = "pop" /\ index' = index /\ q_index' = q_index
        /\ index < buff_size => q_index[index] = -1
        /\ pc' = IF index < buff_size THEN "end" ELSE "crashed"
    BY <1>7 DEF PopEnd, loopVars
  <2> QED
    BY <1>1, <1>2, <2>1 DEF StopInv
<1>8. CASE QueueStep
  <2>1. completed < enqueued /\ pc' = pc /\ index' = index
    BY <1>8 DEF QueueStep, MigrateIn, StartTask, CompleteTask, MigrateOut, Running,
         hostVars, loopVars
  <2>2. pc \notin {"pop", "end", "crashed"}
    BY <1>2, <2>1 DEF Pipeline
  <2> QED
    BY <1>1, <2>1, <2>2 DEF StopInv
<1>9. CASE CdcRuns \/ StreamRuns \/ UNCHANGED allVars
  <2>1. UNCHANGED << pc, index, q_index >>
    BY <1>9 DEF CdcRuns, StreamRuns, allVars, hostVars, loopVars
  <2> QED
    BY <1>1, <2>1 DEF StopInv
<1> QED
  BY <1>3, <1>4, <1>5, <1>6, <1>7, <1>8, <1>9 DEF HostNext, HostStep

LEMMA StopInvariant == HostSpec => [](HostInv /\ StopInv)
<1> QED
  BY InvInit, InvStep, StopInit, StopStep, PTL DEF HostSpec

\* The loop ends early, late or outside of the array only where -1 does not
\* follow the entries of the kernel.
THEOREM TerminatorSuffices == HostSpec => []EndsAtTerminator
<1>1. HostInv /\ StopInv => EndsAtTerminator
  <2> SUFFICES ASSUME HostInv, StopInv, pc \in {"end", "crashed"}, buff_size >= WIN_SIZE,
                      \A k \in Position : k >= Len(chunk_q) => q_index[k] = -1
               PROVE  pc = "end" /\ Len(chunks) = Len(chunk_q)
    BY DEF EndsAtTerminator
  <2>1. /\ buff_size \in Nat /\ Len(chunk_q) \in 1 .. buff_size - 1
        /\ \A k \in 1 .. Len(chunk_q) : q_index[k - 1] \in 0 .. buff_size - 1
    BY Entries
  <2>2. /\ index \in 0 .. buff_size /\ index = Len(chunks)
        /\ \A k \in 0 .. index - 1 : q_index[k] # -1
        /\ pc = "end" => index < buff_size /\ q_index[index] = -1
        /\ pc = "crashed" => index = buff_size
    BY DEF StopInv, HostInv, HostType
  <2>3. index <= Len(chunk_q)
    <3> SUFFICES ASSUME index > Len(chunk_q) PROVE FALSE
      BY <2>1, <2>2
    <3>1. Len(chunk_q) \in Position /\ Len(chunk_q) \in 0 .. index - 1
      BY <2>1, <2>2 DEF Position
    <3> QED
      BY <2>1, <2>2, <3>1
  <2>4. pc = "end" /\ q_index[index] = -1
    BY <2>1, <2>2, <2>3
  <2>5. index >= Len(chunk_q)
    <3> SUFFICES ASSUME index < Len(chunk_q) PROVE FALSE
      BY <2>1, <2>2
    <3>1. index + 1 \in 1 .. Len(chunk_q) /\ (index + 1) - 1 = index
      BY <2>1, <2>2
    <3>2. q_index[index] \in 0 .. buff_size - 1
      BY <2>1, <3>1
    <3> QED
      BY <2>1, <2>4, <3>2
  <2> QED
    BY <2>1, <2>2, <2>3, <2>4, <2>5
<1> QED
  BY <1>1, StopInvariant, PTL

\* A packet of at least a window: no entry points outside of it.  Shorter packets
\* are the only ones for which one does.
THEOREM WholeWindowsEndInBuff == HostSpec => [](buff_size >= WIN_SIZE => EndsInBuff)
<1>1. HostInv => (buff_size >= WIN_SIZE => EndsInBuff)
  <2> SUFFICES ASSUME HostInv, buff_size >= WIN_SIZE, NEW n \in 1 .. Len(chunk_q)
               PROVE  chunk_q[n] \in Position
    BY DEF EndsInBuff
  <2>1. HostType /\ Progress /\ buff_size \in Nat /\ WIN_SIZE \in Nat /\ WIN_SIZE >= 1
    BY LimitIs DEF HostInv
  <2>2. chunk_q \in Seq(Int) /\ outStream \in Seq(Int) /\ i \in Nat
    BY <2>1 DEF HostType
  <2>3. CASE kernel \in {"idle", "read", "fetch"} \/ kernel = "exec"
    BY <2>1, <2>3 DEF Progress
  <2>4. CASE kernel = "scan"
    <3>1. chunk_q[n] \in WIN_SIZE + n - 2 .. i - 2 /\ chunk_q[n] < buff_size - 1
      BY <2>1, <2>4 DEF Progress, Marks
    <3> QED
      BY <2>1, <2>2, <3>1 DEF Position
  <2>5. CASE kernel = "write"
    <3> DEFINE s == chunk_q \o outStream
    <3>1. Len(outStream) >= 1 /\ \A k \in 1 .. Len(s) - 1 : s[k] \in 0 .. buff_size - 1
      BY <2>1, <2>5 DEF Progress, AllMarks
    <3>2. n \in 1 .. Len(s) - 1 /\ s[n] = chunk_q[n]
      BY <2>2, <3>1
    <3> QED
      BY <3>1, <3>2 DEF Position
  <2>6. CASE kernel = "done"
    BY <2>1, <2>6 DEF Progress, AllMarks, Position
  <2> QED
    BY <2>1, <2>3, <2>4, <2>5, <2>6 DEF Progress
<1> QED
  BY <1>1, HostInvariant, PTL
\* For a packet of at least a window neither kernel reads outside of the memory
\* there is, whatever lies behind the packet.
THEOREM WholeWindowsStayInMemory ==
  HostSpec => [](buff_size >= WIN_SIZE => kernel # "crashed")
<1>1. HostInv => (buff_size >= WIN_SIZE => kernel # "crashed")
  BY DEF HostInv, Progress
<1> QED
  BY <1>1, HostInvariant, PTL

-----------------------------------------------------------------------------
(* Host, queue and kernel implement the sequential chunker.                *)

LEMMA CutsAreInts == ContentCuts \in SUBSET Int
<1>1. WIN_SIZE - 1 .. buff_size - WIN_SIZE - 2 \subseteq Int
  OBVIOUS
<1> QED
  BY <1>1 DEF ContentCuts

LEMMA ChunkerInit == HostInit => Ch!Init
<1> SUFFICES ASSUME HostInit PROVE Ch!Init
  OBVIOUS
<1>1. buff_size \in PacketSizes /\ pc = "fill" /\ chunks = << >> /\ chunk_q = << >>
  BY DEF HostInit, CdcInit
<1>2. KernelChunks = << >>
  BY <1>1 DEF KernelChunks
<1>3. ContentCuts \in SUBSET Int
  BY CutsAreInts
<1> QED
  BY <1>1, <1>2, <1>3 DEF Ch!Init

\* A packet shorter than a window is mapped, and that is all there is to see.
LEMMA ChunkerShort ==
  HostInv /\ [HostNext]_allVars /\ buff_size < WIN_SIZE => [Ch!Next]_(Ch!vars)
<1> SUFFICES ASSUME HostInv, [HostNext]_allVars, buff_size < WIN_SIZE
             PROVE  [Ch!Next]_(Ch!vars)
  OBVIOUS
<1>1. buff_size' = buff_size
  BY DEF HostNext, HostStep, Fill, MapBuffers, Enqueue, Finish, LoopWhen, PopChunk, PopEnd,
      QueueStep, MigrateIn, StartTask, CompleteTask, MigrateOut,
      CdcRuns, CdcStep, Scan, Turn, ScanOutside, LastChunk, Last,
      StreamRuns, StreamStep, ReadBuff, Fetch, Exec, ExecLast, Write, WriteLast,
      allVars, cdcVars
<1>2. buff_size \in Int /\ WIN_SIZE \in Nat
  BY CdcAssumption DEF HostInv, CdcAssumption
<1>3. ~(buff_size >= WIN_SIZE) /\ ~(buff_size' >= WIN_SIZE)
  BY <1>1, <1>2
<1>4. KernelChunks = << >> /\ KernelChunks' = << >>
  BY <1>1 DEF KernelChunks
<1>5. WIN_SIZE - 1 .. buff_size - WIN_SIZE - 2 = {}
  BY <1>2
<1>6. ContentCuts = {} /\ ContentCuts' = {}
  BY <1>1, <1>5 DEF ContentCuts
<1>7. CASE MapBuffers
  <2>1. pc = "map" /\ pc' = "enqueue"
    BY <1>7 DEF MapBuffers
  <2>2. Ch!Load
    BY <1>1, <1>3, <1>4, <1>6, <2>1 DEF Ch!Load
  <2> QED
    BY <2>2 DEF Ch!Next
<1>8. CASE ~MapBuffers
  <2>1. (pc' \notin {"fill", "map"}) <=> (pc \notin {"fill", "map"})
    BY <1>8 DEF HostNext, HostStep, Fill, Enqueue, Finish, LoopWhen, PopChunk, PopEnd,
        QueueStep, MigrateIn, StartTask, CompleteTask, MigrateOut,
        CdcRuns, StreamRuns, allVars, hostVars
  <2> QED
    BY <1>1, <1>3, <1>4, <1>6, <2>1 DEF Ch!vars
<1> QED
  BY <1>7, <1>8

\* Until the loop starts, the content is mapped and nothing is taken.
LEMMA ChunkerBefore ==
  /\ HostInv /\ HostInv' /\ StopInv
  /\ buff_size >= WIN_SIZE
  /\ HostNext
  /\ ~PopChunk /\ ~PopEnd
  => [Ch!Next]_(Ch!vars)
<1> SUFFICES ASSUME HostInv, HostInv', StopInv, buff_size >= WIN_SIZE, HostNext,
                    ~PopChunk, ~PopEnd
             PROVE  [Ch!Next]_(Ch!vars)
  OBVIOUS
<1>1. buff_size' = buff_size
  BY DEF HostNext, HostStep, Fill, MapBuffers, Enqueue, Finish, LoopWhen,
      QueueStep, MigrateIn, StartTask, CompleteTask, MigrateOut,
      CdcRuns, CdcStep, Scan, Turn, ScanOutside, LastChunk, Last,
      StreamRuns, StreamStep, ReadBuff, Fetch, Exec, ExecLast, Write, WriteLast,
      allVars, cdcVars
<1>2. HostType /\ Pipeline /\ HostType' /\ Pipeline' /\ Progress
  BY <1>1 DEF HostInv
<1>3. UNCHANGED << krnl, chunks >>
  BY DEF HostNext, HostStep, Fill, MapBuffers, Enqueue, Finish, LoopWhen,
      QueueStep, MigrateIn, StartTask, CompleteTask, MigrateOut,
      CdcRuns, StreamRuns, hostVars, loopVars
<1>4. Len(chunk_q) \in Nat /\ Len(chunk_q') \in Nat /\ chunks \in Seq(Int \X Int)
      /\ index = Len(chunks)
  BY <1>2 DEF HostType
<1>5. ASSUME pc \notin {"pop", "end", "crashed"}
      PROVE  KernelChunks = << >> /\ KernelChunks' = << >>
  <2>1. chunks = << >> /\ chunks' = << >>
    BY <1>3, <1>4, <1>5 DEF StopInv
  <2> QED
    BY <1>1, <1>4, <2>1 DEF KernelChunks
<1>6. CASE MapBuffers
  <2>1. pc = "map" /\ pc' = "enqueue"
    BY <1>6 DEF MapBuffers
  <2>2. ContentCuts' \in SUBSET Int
    <3>1. WIN_SIZE - 1 .. buff_size' - WIN_SIZE - 2 \subseteq Int
      OBVIOUS
    <3> QED
      BY <3>1 DEF ContentCuts
  <2>3. Ch!Load
    BY <1>1, <1>5, <2>1, <2>2 DEF Ch!Load
  <2> QED
    BY <2>3 DEF Ch!Next
<1>7. CASE ~MapBuffers
  <2>1. input_buf' = input_buf
    BY <1>7 DEF HostNext, HostStep, Fill, Enqueue, Finish, LoopWhen,
        QueueStep, MigrateIn, StartTask, CompleteTask, MigrateOut,
        CdcRuns, StreamRuns, hostVars
  <2>2. ContentCuts' = ContentCuts
    BY <1>1, <1>3, <2>1 DEF ContentCuts, ContentHash
  <2>3. (pc' \notin {"fill", "map"}) <=> (pc \notin {"fill", "map"})
    BY <1>7 DEF HostNext, HostStep, Fill, Enqueue, Finish, LoopWhen,
        QueueStep, MigrateIn, StartTask, CompleteTask, MigrateOut,
        CdcRuns, StreamRuns, hostVars
  <2>4. (pc' \in {"end", "crashed"}) <=> (pc \in {"end", "crashed"})
    BY <1>7 DEF HostNext, HostStep, Fill, Enqueue, Finish, LoopWhen,
        QueueStep, MigrateIn, StartTask, CompleteTask, MigrateOut,
        CdcRuns, StreamRuns, hostVars
  <2>5. KernelChunks' = KernelChunks
    <3>1. CASE pc \notin {"pop", "end", "crashed"}
      BY <1>5, <3>1
    <3>2. CASE pc \in {"pop", "end", "crashed"}
      <4>1. completed = 3 /\ enqueued = 3 /\ kernel = "done"
        BY <1>2, <3>2 DEF Pipeline
      <4>2. ~Fill /\ ~Enqueue /\ ~Finish /\ ~QueueStep
        BY <3>2, <4>1 DEF Fill, Enqueue, Finish, LoopWhen,
            QueueStep, MigrateIn, StartTask, CompleteTask, MigrateOut, Running
      <4>3. ~CdcRuns /\ ~StreamRuns
        BY <4>1 DEF CdcRuns, CdcStep, Scan, Turn, ScanOutside, LastChunk, Last,
            StreamRuns, StreamStep, ReadBuff, Fetch, Exec, ExecLast, Write, WriteLast
      <4> QED
        BY <1>7, <4>2, <4>3 DEF HostNext, HostStep
    <3> QED
      BY <3>1, <3>2
  <2> QED
    BY <1>1, <2>2, <2>3, <2>4, <2>5 DEF Ch!vars
<1> QED
  BY <1>6, <1>7

\* A turn of the loop takes the next chunk, or an entry that the kernel did not
\* write.
LEMMA ChunkerPop ==
  HostInv /\ buff_size >= WIN_SIZE /\ PopChunk => [Ch!Next]_(Ch!vars)
<1> SUFFICES ASSUME HostInv, buff_size >= WIN_SIZE, PopChunk
             PROVE  [Ch!Next]_(Ch!vars)
  OBVIOUS
<1>1. /\ pc = "pop" /\ pc' = pc
      /\ chunks' = Append(chunks, << chunk_end_pos + 1, q_index[index] >>)
      /\ UNCHANGED << buff_size, krnl, input_buf, chunk_q >>
  BY DEF PopChunk, cdcVars
<1>0. ~(buff_size < WIN_SIZE) /\ ~(buff_size' < WIN_SIZE)
  <2>1. buff_size \in Nat /\ WIN_SIZE \in Nat
    BY LimitIs DEF HostInv
  <2> QED
    BY <1>1, <2>1
<1>2. ContentCuts' = ContentCuts
  BY <1>1 DEF ContentCuts, ContentHash
<1>3. chunks \in Seq(Int \X Int) /\ index = Len(chunks) /\ Between
  BY DEF HostInv, HostType
<1> DEFINE n == Len(chunks) + 1
           q == Len(chunk_q)
           Entry == << chunk_end_pos + 1, q_index[index] >>
<1>4. /\ q \in 1 .. buff_size - 1 /\ buff_size \in Nat
      /\ \A k \in 1 .. q :
           /\ q_index[k - 1] = chunk_q[k]
           /\ chunk_q[k] \in 0 .. buff_size - 1
           /\ Ch!IsEnd(chunk_q[k])
           /\ \A e \in (IF k = 1 THEN 0 ELSE chunk_q[k - 1] + 1) .. chunk_q[k] - 1 : ~Ch!IsEnd(e)
  BY <1>1, Entries
<1>5. Len(chunks) \in Nat /\ Len(chunks') = n
      /\ \A k \in 1 .. Len(chunks) : chunks'[k] = chunks[k]
  BY <1>1, <1>3
<1>6. CASE n <= q
  <2>1. KernelChunks = chunks /\ KernelChunks' = Append(chunks, Entry)
    BY <1>0, <1>1, <1>4, <1>5, <1>6 DEF KernelChunks
  <2>2. n \in 1 .. q /\ n - 1 = index
    BY <1>3, <1>4, <1>5, <1>6
  <2>3. chunk_end_pos + 1 = IF n = 1 THEN 0 ELSE chunk_q[n - 1] + 1
    <3>1. CASE n = 1
      <4>1. chunks = << >>
        BY <1>3, <3>1
      <4> QED
        BY <3>1, <4>1 DEF chunk_end_pos
    <3>2. CASE n > 1
      <4>1. chunks # << >> /\ Len(chunks) = n - 1 /\ n - 1 \in 1 .. Len(chunks) /\ n - 1 \in 1 .. q
        BY <1>3, <1>5, <2>2, <3>2
      <4>2. chunks[n - 1][2] = q_index[(n - 1) - 1]
        BY <1>3, <4>1 DEF Between
      <4>3. q_index[(n - 1) - 1] = chunk_q[n - 1]
        BY <1>4, <4>1
      <4> QED
        BY <3>2, <4>1, <4>2, <4>3 DEF chunk_end_pos
    <3> QED
      BY <1>5, <3>1, <3>2
  <2>4. Ch!Start = chunk_end_pos + 1
    <3>1. CASE chunks = << >>
      BY <2>1, <3>1 DEF Ch!Start, chunk_end_pos
    <3>2. CASE chunks # << >>
      BY <2>1, <3>2 DEF Ch!Start, chunk_end_pos
    <3> QED
      BY <3>1, <3>2
  <2>5. q_index[index] = chunk_q[n]
    BY <1>4, <2>2
  <2>6. chunk_q[n] \in Ch!Start .. buff_size - 1
    <3>1. chunk_q[n] \in 0 .. buff_size - 1
      BY <1>4, <2>2
    <3>2. CASE n = 1
      BY <1>4, <2>3, <2>4, <3>1, <3>2
    <3>3. CASE n > 1
      <4>1. n - 1 \in 1 .. n - 1 /\ n - 1 \in 1 .. q
        BY <2>2, <3>3
      <4>2. chunk_q[n - 1] < chunk_q[n] /\ chunk_q[n - 1] \in 0 .. buff_size - 1
        <5>1. Rising(chunk_q, q)
          BY <1>1 DEF HostInv, Pipeline, Progress, AllMarks
        <5> QED
          BY <1>4, <2>2, <4>1, <5>1 DEF Rising
      <4> QED
        BY <1>4, <2>3, <2>4, <3>1, <3>3, <4>2
    <3> QED
      BY <1>5, <3>2, <3>3
  <2>7. Ch!IsEnd(chunk_q[n]) /\ \A e \in Ch!Start .. chunk_q[n] - 1 : ~Ch!IsEnd(e)
    BY <1>4, <2>2, <2>3, <2>4
  <2>8. KernelChunks' = Append(KernelChunks, << Ch!Start, chunk_q[n] >>)
    BY <2>1, <2>4, <2>5
  <2>9. Ch!TakeChunk
    <3> HIDE DEF n, q, Entry
    <3> QED
      BY <1>1, <1>2, <2>6, <2>7, <2>8 DEF Ch!TakeChunk
  <2> QED
    BY <2>9 DEF Ch!Next
<1>7. CASE n > q
  <2>1. KernelChunks = SubSeq(chunks, 1, q)
    <3>1. CASE Len(chunks) = q
      BY <1>0, <1>1, <1>3, <1>4, <1>5, <3>1 DEF KernelChunks
    <3>2. CASE Len(chunks) > q
      BY <1>0, <1>1, <1>3, <1>4, <1>5, <3>2 DEF KernelChunks
    <3> QED
      BY <1>4, <1>5, <1>7, <3>1, <3>2
  <2>2. KernelChunks' = SubSeq(chunks', 1, q)
    BY <1>0, <1>1, <1>4, <1>5, <1>7 DEF KernelChunks
  <2>3. SubSeq(Append(chunks, Entry), 1, q) = SubSeq(chunks, 1, q)
    BY <1>3, <1>4, <1>5, <1>7
  <2>4. KernelChunks' = KernelChunks
    BY <1>1, <2>1, <2>2, <2>3
  <2> QED
    BY <1>1, <1>2, <2>4 DEF Ch!vars
<1> QED
  BY <1>4, <1>5, <1>6, <1>7

\* The loop has taken every chunk of the packet when it ends.
LEMMA ChunkerEnd ==
  HostInv /\ StopInv /\ buff_size >= WIN_SIZE /\ PopEnd => [Ch!Next]_(Ch!vars)
<1> SUFFICES ASSUME HostInv, StopInv, buff_size >= WIN_SIZE, PopEnd
             PROVE  [Ch!Next]_(Ch!vars)
  OBVIOUS
<1>1. /\ pc = "pop" /\ pc' \in {"end", "crashed"}
      /\ index < buff_size => q_index[index] = -1
      /\ UNCHANGED << buff_size, krnl, input_buf, chunk_q, chunks >>
  BY DEF PopEnd, cdcVars, loopVars
<1>0. ~(buff_size < WIN_SIZE) /\ ~(buff_size' < WIN_SIZE)
  <2>1. buff_size \in Nat /\ WIN_SIZE \in Nat
    BY LimitIs DEF HostInv
  <2> QED
    BY <1>1, <2>1
<1>2. ContentCuts' = ContentCuts
  BY <1>1 DEF ContentCuts, ContentHash
<1>3. chunks \in Seq(Int \X Int) /\ index = Len(chunks) /\ Between
  BY DEF HostInv, HostType
<1> DEFINE q == Len(chunk_q)
<1>4. /\ q \in 1 .. buff_size - 1 /\ buff_size \in Nat
      /\ chunk_q[q] = buff_size - 1
      /\ \A k \in 1 .. q : q_index[k - 1] = chunk_q[k] /\ chunk_q[k] \in 0 .. buff_size - 1
  BY <1>1, Entries
<1>5. Len(chunks) \in Nat /\ Len(chunks) >= q
  <2> SUFFICES ASSUME Len(chunks) < q PROVE FALSE
    BY <1>3, <1>4
  <2>1. index + 1 \in 1 .. q /\ (index + 1) - 1 = index /\ index < buff_size
    BY <1>3, <1>4
  <2>2. q_index[index] \in 0 .. buff_size - 1
    BY <1>4, <2>1
  <2> QED
    BY <1>1, <2>1, <2>2
<1>6. KernelChunks # << >> /\ Len(KernelChunks) = q /\ KernelChunks[q] = chunks[q]
  <2>1. CASE Len(chunks) = q
    BY <1>0, <1>1, <1>3, <1>4, <2>1 DEF KernelChunks
  <2>2. CASE Len(chunks) > q
    <3>1. KernelChunks = SubSeq(chunks, 1, q)
      BY <1>0, <1>4, <1>5, <2>2 DEF KernelChunks
    <3>2. 1 \in 1 .. Len(chunks) /\ q \in 1 .. Len(chunks) /\ q \in Nat
      BY <1>4, <1>5, <2>2
    <3> HIDE DEF q
    <3>3. Len(KernelChunks) = q /\ KernelChunks[q] = chunks[q]
      BY <1>3, <3>1, <3>2
    <3>4. << >> # KernelChunks
      BY <3>2, <3>3
    <3> QED
      BY <3>3, <3>4
  <2> QED
    BY <1>4, <1>5, <2>1, <2>2
<1>7. chunks[q][2] = buff_size - 1
  <2>1. q \in 1 .. Len(chunks) /\ q \in 1 .. q
    BY <1>4, <1>5
  <2>2. chunks[q][2] = q_index[q - 1] /\ q_index[q - 1] = chunk_q[q]
    BY <1>3, <1>4, <2>1 DEF Between
  <2> QED
    BY <1>4, <2>2
<1>8. Ch!Start = buff_size
  BY <1>4, <1>6, <1>7 DEF Ch!Start
<1>9. KernelChunks' = KernelChunks
  BY <1>1 DEF KernelChunks
<1>10. Ch!Finish
  BY <1>1, <1>2, <1>8, <1>9 DEF Ch!Finish
<1> QED
  BY <1>10 DEF Ch!Next

\* Host, queue and kernel together behave like a plain sequential chunker: every
\* step takes the next chunk of the mapped content, finishes behind the last one,
\* or cannot be seen.
THEOREM KernelImplementsChunker == HostSpec => ImplementsChunker
<1>1. HostInv /\ HostInv' /\ StopInv /\ [HostNext]_allVars => [Ch!Next]_(Ch!vars)
  <2> SUFFICES ASSUME HostInv, HostInv', StopInv, [HostNext]_allVars
               PROVE  [Ch!Next]_(Ch!vars)
    OBVIOUS
  <2>0. buff_size \in Int /\ WIN_SIZE \in Int
    BY CdcAssumption DEF HostInv, CdcAssumption
  <2>1. CASE buff_size < WIN_SIZE
    BY <2>1, ChunkerShort
  <2>2. CASE buff_size >= WIN_SIZE /\ HostNext
    BY <2>2, ChunkerBefore, ChunkerPop, ChunkerEnd
  <2>3. CASE UNCHANGED allVars
    <3>1. UNCHANGED << buff_size, krnl, input_buf, chunk_q, chunks, pc >>
      BY <2>3 DEF allVars, cdcVars, hostVars, loopVars
    <3>2. ContentCuts' = ContentCuts /\ KernelChunks' = KernelChunks
      BY <3>1 DEF ContentCuts, ContentHash, KernelChunks
    <3> QED
      BY <3>1, <3>2 DEF Ch!vars
  <2> QED
    BY <2>0, <2>1, <2>2, <2>3
<1> QED
  BY <1>1, ChunkerInit, StopInvariant, PTL DEF HostSpec, ImplementsChunker, Ch!Spec
=============================================================================
