CONSTANTS
  Max = 6
  PacketLens <- MCPacketLens
  FifoDepth = 1
  ByteLimit = 12
SPECIFICATION Spec
INVARIANTS
  TypeOK
  IInv
  UnreadIntact
  SpaceNotOverstated
  StreamInOrder
  FullOnlyByRace
