----------------------------- MODULE CdcStream -----------------------------
(***************************************************************************)
(* The kernel cdc0() (Server/cdc.cpp): read() writes the packet into one   *)
(* stream, exec() turns it into boundaries in another, and write() takes   *)
(* them out until the -1 that exec() puts behind them.  The three are      *)
(* called one after the other.  A stream is unbounded; taking from an      *)
(* empty one blocks.                                                       *)
(***************************************************************************)
EXTENDS Cdc

VARIABLES
  inStream,
  outStream,
  window,     \* buff[WIN_SIZE] of exec, a ring
  offset      \* where the ring goes on, relative to i

streamVars == << inStream, outStream, window, offset >>

StreamInit ==
  /\ inStream = << >>
  /\ outStream = << >>
  /\ window = << >>
  /\ offset = 0

\* read(): the whole packet.
ReadBuff ==
  /\ kernel = "read"
  /\ inStream' = [ k \in 1 .. buff_size |-> buff[k - 1] ]
  /\ kernel' = "fetch"
  /\ UNCHANGED << buff, buff_size, i, hash, chunk_q, outStream, window, offset >>

Fetched == 2 * WIN_SIZE - 1

\* The two loops before the scan: WIN_SIZE bytes, and WIN_SIZE - 1 over them.
\* They take Fetched bytes whatever the length is.
Fetch ==
  /\ kernel = "fetch"
  /\ Len(inStream) >= Fetched
  /\ window' = [ s \in 0 .. WIN_SIZE - 1 |->
                   inStream[IF s < WIN_SIZE - 1 THEN WIN_SIZE + s + 1 ELSE WIN_SIZE] ]
  /\ inStream' = SubSeq(inStream, Fetched + 1, Len(inStream))
  /\ offset' = WIN_SIZE - 1
  /\ kernel' = "exec"
  /\ UNCHANGED << buff, buff_size, i, hash, chunk_q, outStream >>

\* A turn of exec()'s loop.  Its hash loop runs from i to WIN_SIZE.
Exec ==
  /\ kernel = "exec"
  /\ i < Limit
  /\ inStream # << >>
  /\ window' = [ window EXCEPT ![(i + offset) % WIN_SIZE] = Head(inStream) ]
  /\ inStream' = Tail(inStream)
  /\ offset' = (offset + 1) % WIN_SIZE
  /\ hash' = Hash(window', i .. WIN_SIZE - 1)
  /\ outStream' = outStream \o Boundaries(hash')
  /\ i' = i + 1
  /\ UNCHANGED << buff, buff_size, chunk_q, kernel >>

\* "out.write(buff_size-1); out.write(-1);"
ExecLast ==
  /\ kernel = "exec"
  /\ i >= Limit
  /\ outStream' = outStream \o << buff_size - 1, -1 >>
  /\ kernel' = "write"
  /\ UNCHANGED << buff, buff_size, i, hash, chunk_q, inStream, window, offset >>

\* write(): an entry, or the -1, which is not written.
Write ==
  /\ kernel = "write"
  /\ outStream # << >>
  /\ Head(outStream) # -1
  /\ chunk_q' = Append(chunk_q, Head(outStream))
  /\ outStream' = Tail(outStream)
  /\ UNCHANGED << buff, buff_size, i, hash, kernel, inStream, window, offset >>

WriteLast ==
  /\ kernel = "write"
  /\ outStream # << >>
  /\ Head(outStream) = -1
  /\ outStream' = Tail(outStream)
  /\ kernel' = "done"
  /\ UNCHANGED << buff, buff_size, i, hash, chunk_q, inStream, window, offset >>

StreamStep == ReadBuff \/ Fetch \/ Exec \/ ExecLast \/ Write \/ WriteLast
=============================================================================
