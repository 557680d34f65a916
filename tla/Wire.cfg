SPECIFICATION Spec
CONSTANTS
  Bytes <- MCBytes
  MAX_INPUT_MSG_SIZE = 3
  MaxItemSize = 4
  TIMEOUT_TICKS = 1
  TickModulus = 8
  InCapacity = 1
  OutCapacity = 1
  MaxPacket = 2
  MaxUptime = 2
  MaxStream = 4
INVARIANTS TypeOK NoAbort RoomToReceive ChunkingIrrelevant
PROPERTIES HandleDataReturns
CHECK_DEADLOCK FALSE
