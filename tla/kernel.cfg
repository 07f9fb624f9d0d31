SPECIFICATION HostSpec
CONSTANTS
  WIN_SIZE = 2
  PRIME = 3
  MODULUS = 5
  TARGET = 0
  UINT = 16
  Byte <- MCByte
  PacketSizes <- MCAnySize
  MEMORY = 9
  Received <- MCReceived
  Kernels = {"cdc", "cdc0"}
  DeviceMemory <- MCDeviceMemory
  MappedFill <- MCMappedFill
INVARIANTS
  LoopSeesKernel
  TilesPacket
  CutsByContent
  EndsAtTerminator
PROPERTIES
  
  ImplementsChunker
CHECK_DEADLOCK FALSE
