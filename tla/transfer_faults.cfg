SPECIFICATION TransferSpec
CONSTANTS
  ByteSize = 4
  MAX_BLOCKSIZE = 7
  NUM_ELEMENTS = 4
  NUM_PACKETS = 2
  pipe_depth = 1
  FileSizes <- MCFiles
  BlockSizes <- MCOneBlockSize
  ServerBlockSizes <- MCServerBlockSizes
  Conditions <- MCFaulty
  SOCKET_BUFFER = 2
  MAX_FAILURES = 2
INVARIANTS
  StopsAtFirstDone
  InFileOrder
  SlotMemory

  
CHECK_DEADLOCK FALSE
