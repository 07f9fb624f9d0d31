---------------------------- MODULE MCHostKernel ----------------------------
(* Instances of HostKernel for TLC. *)
EXTENDS HostKernel

MCByte == {0, 1}

\* Packets shorter than a window, of one window, and long enough for several
\* windows.
MCAnySize == 1 .. 9
MCFewSizes == 2 .. 4

\* No step reads the packet: one is enough.
MCReceived == { [ k \in 0 .. MEMORY - 1 |-> 1 ] }

\* One value throughout the memory that nobody has written.
MCDeviceMemory == { [ k \in 0 .. MEMORY - 1 |-> b ] : b \in Byte }

\* What the code means to be there, and an end position that looks like any.
MCMappedFill == {-1, 1}
=============================================================================
