CONSTANTS
  Base = 2
  MAX_PACKET_SIZE = 2
  MaxShort = 2
  FifoDepth = 3
  Amounts <- MCAmounts
  MaxLosses = 1
SPECIFICATION FairSpec
INVARIANTS
  TypeOK
  EmptyingFindsStep
PROPERTIES
  IsFrameRelay
  FramesAreSent
