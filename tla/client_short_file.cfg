SPECIFICATION TransferSpec
CONSTANTS
  ByteSize = 4
  MAX_BLOCKSIZE = 7
  NUM_ELEMENTS = 7
  NUM_PACKETS = 3
  pipe_depth = 1
  FileSizes <- MCFiles
  BlockSizes <- MCBlockSizes
  ServerBlockSizes <- MCLargeBuffers
  Conditions <- MCSilent
  SOCKET_BUFFER = 2
  MAX_FAILURES = 0
INVARIANTS
  SentPiecesOfFile
CHECK_DEADLOCK FALSE
