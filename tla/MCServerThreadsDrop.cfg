CONSTANTS
  Max = 6
  PacketLens <- MCPacketLens
  FifoDepth = 1
  ByteLimit = 12
SPECIFICATION Spec
INVARIANT DropsOnlyWithoutRoom
