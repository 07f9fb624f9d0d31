SPECIFICATION CodecSpec
CONSTANTS
  Chars = 3
  CODES = 9
  MAX_CHUNK_LEN = 9
  Chunks <- MCChunks
INVARIANTS
  RestoresChunk
  TablesAgree
  
PROPERTIES
  ImplementsLzw
  ImplementsPack
CHECK_DEADLOCK FALSE
