SPECIFICATION HostSpec
CONSTANTS
  WIN_SIZE = 2
  PRIME = 3
  MODULUS = 5
  TARGET = 0
  UINT = 16
  Byte <- MCByte
  PacketSizes <- MCAnySize
  MEMORY = 9
  Received <- MCReceived
  Kernels = {"cdc"}
  DeviceMemory <- MCDeviceMemory
  MappedFill <- MCMappedFill
INVARIANTS
  EndsInBuff
CHECK_DEADLOCK FALSE
