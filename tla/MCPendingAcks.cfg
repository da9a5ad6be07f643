SPECIFICATION AcksSpec
CONSTANTS
  MaxSequence = 6
  MaxAckPackets = 2
  MaxAckRanges = 2
  PacketSequences <- MCSequences
INVARIANTS
  AcksTypeOK
  RangesSeparated
  OnlyReceivedIsAcked
  AckPacketRoundTrip
PROPERTIES
  ReceiveForgetsNothing
  AckedLargestIsExact
