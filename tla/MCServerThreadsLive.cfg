CONSTANTS
  Max = 5
  PacketLens = {0, 1}
  FifoDepth = 1
  ByteLimit = 9
SPECIFICATION FairSpec
PROPERTY AcceptedReachesFifo
