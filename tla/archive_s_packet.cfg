SPECIFICATION ArchiveSpec
CONSTANTS
  a = a
  b = b
  c = c
  d = d
  Chunk <- MCChunk
  HASH_SIZE = 3
  DigestOf <- MCDigestOf
  ChunkLength <- MCChunkLength
  PackedLengths <- MCPackedLengths
  StackTails <- MCStackTails
  ZeroIn <- MCZeroIn
  TooLong = {}
  MAX_CHUNKS = 5
INVARIANTS
  LiteralsAreIntact
CHECK_DEADLOCK FALSE
