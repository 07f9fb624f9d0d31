SPECIFICATION TransferSpec
CONSTANTS
  ByteSize = 4
  MAX_BLOCKSIZE = 7
  NUM_ELEMENTS = 7
  NUM_PACKETS = 3
  pipe_depth = 1
  FileSizes <- MCWholeFiles
  BlockSizes <- MCBlockSizes
  ServerBlockSizes <- MCLargeBuffers
  Conditions <- MCReliable
  SOCKET_BUFFER = 5
  MAX_FAILURES = 0
INVARIANTS
  TransferTypeOK
  SentFileOnce
  HeaderTellsTruth
PROPERTIES
  DeliversFile
CHECK_DEADLOCK FALSE
