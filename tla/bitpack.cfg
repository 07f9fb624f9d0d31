SPECIFICATION PackSpec
CONSTANTS
  Code <- MCCode
  MAX_CHUNK_LEN = 9
INVARIANTS
  ReadsWhatWasWritten
  StopsAtNextHeader
  StaysInBuffer
CHECK_DEADLOCK FALSE
